---- MODULE Spec2Model ----
(***************************************************************************)
(* A model of quibble's review cycle: the session manifest and the round   *)
(* artifacts kept in the session store (state/session.ts), the round loop  *)
(* of the orchestrator (core/orchestrator.ts) and the command that starts  *)
(* or resumes a session (cli/commands.ts).                                 *)
(*                                                                         *)
(* Strings the code computes with character by character (feedback ids and *)
(* descriptions, which hashFeedback concatenates and hashes) are sequences *)
(* of UTF-16 code units; strings the code only stores, compares or passes  *)
(* on are TLA+ strings.  A persisted JSON payload is modelled by the value *)
(* it encodes: the payloads are plain data (strings, booleans, arrays and  *)
(* objects of these), which JSON.parse(JSON.stringify(v)) gives back.      *)
(***************************************************************************)
EXTENDS Integers, Sequences, FiniteSets, TLC

\* Largest value of --max-rounds a run is started or resumed with.
MaxRoundsBound == 2
\* Largest number of times the session is resumed (quibble --resume <id>).
MaxResumes == 1

-----------------------------------------------------------------------------
(* Strings as code units *)

\* "issue-1", "issue-2", "opp-1"
ISSUE_1 == <<105, 115, 115, 117, 101, 45, 49>>
ISSUE_2 == <<105, 115, 115, 117, 101, 45, 50>>
OPP_1 == <<111, 112, 112, 45, 49>>
\* the prefixes computeStatistics tests feedback ids for: "issue-", "opp-"
ISSUE_PREFIX == <<105, 115, 115, 117, 101, 45>>
OPP_PREFIX == <<111, 112, 112, 45>>
\* '|', the separator hashFeedback joins with
PIPE == <<124>>

\* String.prototype.startsWith
startsWith(s, prefix) ==
    /\ Len(s) >= Len(prefix)
    /\ SubSeq(s, 1, Len(prefix)) = prefix

\* a < b in code unit order (the order of the sort in hashFeedback)
RECURSIVE StrLess(_, _)
StrLess(a, b) ==
    IF b = <<>> THEN FALSE
    ELSE IF a = <<>> THEN TRUE
    ELSE IF Head(a) # Head(b) THEN Head(a) < Head(b)
    ELSE StrLess(Tail(a), Tail(b))

-----------------------------------------------------------------------------
(* Payloads the collaborators return *)

Issue(id, severity, description) ==
    [id |-> id, severity |-> severity, description |-> description]

Opportunity(id, impact, description) ==
    [id |-> id, impact |-> impact, description |-> description]

\* Reviews the critiquing collaborator may return.  ReviewA and ReviewB differ
\* only in a severity and in the overall assessment; ReviewC has other content.
\* In one session the collaborator draws its reviews from one of the
\* ReviewerOutputs.
ReviewA ==
    [issues |-> <<Issue(ISSUE_1, "critical", <<97>>)>>,
     opportunities |-> <<Opportunity(OPP_1, "high", <<98>>)>>,
     overall_assessment |-> "needs work"]

ReviewB ==
    [issues |-> <<Issue(ISSUE_1, "minor", <<97>>)>>,
     opportunities |-> <<Opportunity(OPP_1, "high", <<98>>)>>,
     overall_assessment |-> "better"]

ReviewC ==
    [issues |-> <<Issue(ISSUE_1, "major", <<99>>)>>,
     opportunities |-> <<>>,
     overall_assessment |-> "fine"]

Reviews == {ReviewA, ReviewB, ReviewC}

ReviewerOutputs == {{ReviewA, ReviewC}, {ReviewA, ReviewB}}

FeedbackResponse(id, verdict) == [feedback_id |-> id, verdict |-> verdict]

ClaudeResponse(responses, document, reached, outstanding) ==
    [responses |-> responses,
     updated_document |-> document,
     consensus_assessment |->
        [reached |-> reached, outstanding_disagreements |-> outstanding]]

\* Responses the authoring collaborator may return.
Responses ==
    {ClaudeResponse(<<FeedbackResponse(ISSUE_1, "agree"),
                      FeedbackResponse(OPP_1, "agree")>>, "doc-a", TRUE, <<>>),
     ClaudeResponse(<<FeedbackResponse(ISSUE_1, "agree"),
                      FeedbackResponse(OPP_1, "disagree")>>, "doc-b", FALSE,
                    <<OPP_1>>)}

FeedbackResolution(id, status) ==
    [original_feedback_id |-> id, resolution_status |-> status]

CodexConsensus(verdict, resolutions, newIssues) ==
    [verdict |-> verdict, feedback_responses |-> resolutions,
     new_issues |-> newIssues]

\* Consensus checks the critiquing collaborator may return.
Consensuses ==
    {CodexConsensus("approve", <<FeedbackResolution(ISSUE_1, "resolved")>>, <<>>),
     CodexConsensus("reject", <<FeedbackResolution(ISSUE_1, "inadequate")>>, <<>>)}

\* The content of the input file.
InputDocument == "doc-0"

SessionStatuses ==
    {"in_progress", "completed", "failed", "max_rounds_reached",
     "max_rounds_reached_warning", "max_rounds_reached_unsafe"}

-----------------------------------------------------------------------------
(* Orchestrator.hashFeedback *)

\* Two canonically equivalent texts: U+00E5 (a with ring above), and U+0061
\* followed by U+030A (combining ring above).
A_RING == <<229>>
A_COMBINING_RING == <<97, 778>>

\* The canonical decomposition of a text, for the characters of the model.
RECURSIVE decompose(_)
decompose(text) ==
    IF text = <<>> THEN <<>>
    ELSE IF <<Head(text)>> = A_RING THEN A_COMBINING_RING \o decompose(Tail(text))
    ELSE <<Head(text)>> \o decompose(Tail(text))

\* String.prototype.localeCompare: a total order of the texts in which
\* canonically equivalent texts compare as equal (0).  The order of texts that
\* are not equivalent is taken to be the code unit order of their
\* decompositions.
localeCompare(a, b) ==
    IF decompose(a) = decompose(b) THEN 0
    ELSE IF StrLess(decompose(a), decompose(b)) THEN -1
    ELSE 1

\* [...items].sort((a, b) => (a.id + a.description).localeCompare(...)), as a
\* stable insertion sort on the keys id + description.
FeedbackKey(item) == item.id \o item.description

RECURSIVE InsertByKey(_, _)
InsertByKey(item, sorted) ==
    IF sorted = <<>> THEN <<item>>
    ELSE IF localeCompare(FeedbackKey(item), FeedbackKey(Head(sorted))) < 0
         THEN <<item>> \o sorted
         ELSE <<Head(sorted)>> \o InsertByKey(item, Tail(sorted))

RECURSIVE SortByKey(_)
SortByKey(items) ==
    IF items = <<>> THEN <<>>
    ELSE InsertByKey(items[Len(items)], SortByKey(SubSeq(items, 1, Len(items) - 1)))

\* items.map(i => i.id + i.description).join('|')
RECURSIVE JoinKeys(_)
JoinKeys(items) ==
    IF items = <<>> THEN <<>>
    ELSE IF Len(items) = 1 THEN FeedbackKey(items[1])
    ELSE FeedbackKey(items[1]) \o PIPE \o JoinKeys(Tail(items))

FeedbackContent(review) ==
    JoinKeys(SortByKey(review.issues)) \o JoinKeys(SortByKey(review.opportunities))

\* One step of the rolling hash, hash = ((hash << 5) - hash) + c; hash & hash,
\* on a 32-bit value kept as two 16-bit halves <<high, low>>: the result is
\* 31 * hash + c modulo 2^32.
HalfWord == 65536

HashStep(hash, c) ==
    LET low == 31 * hash[2] + c
        high == 31 * hash[1] + (low \div HalfWord)
    IN  <<high % HalfWord, low % HalfWord>>

RECURSIVE HashFrom(_, _)
HashFrom(hash, content) ==
    IF content = <<>> THEN hash
    ELSE HashFrom(HashStep(hash, Head(content)), Tail(content))

\* The 32-bit hash of the normalized content.  hash.toString(16) writes the
\* signed value in hexadecimal, one text per value, so the fingerprint is
\* modelled by the 32-bit value itself.
hashFeedback(review) == HashFrom(<<0, 0>>, FeedbackContent(review))

-----------------------------------------------------------------------------
(* The session store: SessionManager's paths on a StorageAdapter *)

MANIFEST_PATH == <<"manifest.json">>
RoundDir(round) == "round-" \o ToString(round)
CodexReviewPath(round) == <<RoundDir(round), "codex-review.json">>
ClaudeResponsePath(round) == <<RoundDir(round), "claude-response.json">>
ConsensusPath(round) == <<RoundDir(round), "codex-consensus.json">>
DocumentPath(round) == <<RoundDir(round), "document-v" \o ToString(round) \o ".md">>
TimingsPath(round) == <<RoundDir(round), "timings.json">>
FINAL_DOCUMENT_PATH == <<"final", "document.md">>
FINAL_SUMMARY_PATH == <<"final", "summary.json">>

\* StorageAdapter.write, exists
write(store, path, data) == (path :> data) @@ store
exists(store, path) == path \in DOMAIN store

\* An empty store.
NoFiles == [p \in {} |-> ""]

-----------------------------------------------------------------------------
(* The storage adapters.  A session path is the sequence of its             *)
(* slash-separated segments; what a call gives back is <<"ok", value>> or   *)
(* <<"throws", code>>.                                                      *)

Ok(value) == <<"ok", value>>
Throws(code) == <<"throws", code>>

\* No call was made.
NoCall == [op |-> "none"]

\* q is a proper prefix of p: as strings, p starts with q + '/'.
IsUnder(p, q) == Len(q) < Len(p) /\ SubSeq(p, 1, Len(q)) = q

\* The directories above a path, nearest last.
Ancestors(p) == {SubSeq(p, 1, k) : k \in 1..(Len(p) - 1)}

\* MemoryStorageAdapter

memoryWrite(data, sessionPath, content) == (sessionPath :> content) @@ data

memoryRead(data, sessionPath) ==
    Ok(IF sessionPath \in DOMAIN data THEN <<data[sessionPath]>> ELSE <<>>)

memoryExists(data, sessionPath) == Ok(sessionPath \in DOMAIN data)

\* The keys of the map in an order the loop of list visits them.
RECURSIVE KeysInOrder(_)
KeysInOrder(keys) ==
    IF keys = {} THEN <<>>
    ELSE LET first == CHOOSE k \in keys : TRUE
         IN  <<first>> \o KeysInOrder(keys \ {first})

\* for (const key of this.data.keys()) { ... results.push(entry) }
RECURSIVE memoryListFrom(_, _, _)
memoryListFrom(keys, sessionPath, results) ==
    IF keys = <<>> THEN results
    ELSE LET key == Head(keys)
             entry == key[Len(sessionPath) + 1]
         IN  memoryListFrom(Tail(keys), sessionPath,
                IF IsUnder(key, sessionPath)
                   /\ \A i \in DOMAIN results : results[i] # entry
                THEN Append(results, entry) ELSE results)

memoryList(data, sessionPath) ==
    Ok(memoryListFrom(KeysInOrder(DOMAIN data), sessionPath, <<>>))

\* The file system

BASE_PATH == <<"sessions">>
TMP_DIR == <<"tmp">>

\* After initSession: the session directory and the temporary directory.
NewDisk == [dirs |-> {BASE_PATH, TMP_DIR}, files |-> NoFiles]

\* What stands in the way of resolving a path: "ENOTDIR" when a file is
\* among its ancestors, "ENOENT" when an ancestor is missing, else "".
Unresolved(d, p) ==
    IF \E a \in Ancestors(p) : a \in DOMAIN d.files THEN "ENOTDIR"
    ELSE IF \E a \in Ancestors(p) : a \notin d.dirs THEN "ENOENT"
    ELSE ""

\* fs.promises.mkdir(dir, { recursive: true })
mkdir(d, dir) ==
    IF \E a \in Ancestors(dir) \cup {dir} : a \in DOMAIN d.files
    THEN [error |-> "ENOTDIR", disk |-> d]
    ELSE [error |-> "", disk |-> [d EXCEPT !.dirs = @ \cup Ancestors(dir) \cup {dir}]]

\* fs.promises.readFile(p, 'utf-8')
readFile(d, p) ==
    IF Unresolved(d, p) # "" THEN Throws(Unresolved(d, p))
    ELSE IF p \in DOMAIN d.files THEN Ok(<<d.files[p]>>)
    ELSE IF p \in d.dirs THEN Throws("EISDIR")
    ELSE Throws("ENOENT")

\* fs.promises.access(p)
access(d, p) ==
    IF Unresolved(d, p) # "" THEN Throws(Unresolved(d, p))
    ELSE IF p \in DOMAIN d.files \/ p \in d.dirs THEN Ok(TRUE)
    ELSE Throws("ENOENT")

\* fs.promises.readdir(p): the names directly under a directory.
readdir(d, p) ==
    IF Unresolved(d, p) # "" THEN Throws(Unresolved(d, p))
    ELSE IF p \in DOMAIN d.files THEN Throws("ENOTDIR")
    ELSE IF p \notin d.dirs THEN Throws("ENOENT")
    ELSE Ok({q[Len(p) + 1] :
                q \in {e \in DOMAIN d.files \cup d.dirs :
                          Len(e) = Len(p) + 1 /\ IsUnder(e, p)}})

\* fs.promises.writeFile(p, data) is not atomic: the file is opened, which
\* empties it, and then the data is written.
openForWrite(d, p) ==
    IF Unresolved(d, p) # "" THEN [error |-> Unresolved(d, p), disk |-> d]
    ELSE IF p \in d.dirs THEN [error |-> "EISDIR", disk |-> d]
    ELSE [error |-> "", disk |-> [d EXCEPT !.files = (p :> "") @@ @]]

writeData(d, p, data) == [d EXCEPT !.files = (p :> data) @@ @]

\* fs.promises.rename(from, to): atomic; a file cannot replace a directory.
rename(d, from, to) ==
    IF Unresolved(d, to) # "" THEN [error |-> Unresolved(d, to), disk |-> d]
    ELSE IF to \in d.dirs THEN [error |-> "EISDIR", disk |-> d]
    ELSE IF from = to THEN [error |-> "", disk |-> d]
    ELSE [error |-> "",
          disk |-> [d EXCEPT !.files =
                      [q \in (DOMAIN @ \ {from}) \cup {to} |->
                          IF q = to THEN d.files[from] ELSE d.files[q]]]]

\* FileStorageAdapter

\* path.join(this.basePath, sessionPath)
fullPathOf(sessionPath) == BASE_PATH \o sessionPath

\* path.dirname(fullPath)
dirname(p) == SubSeq(p, 1, Len(p) - 1)

\* A write that would put the data straight into the target file.
tempPathInPlace(fullPath, uuid) == fullPath

\* path.join(os.tmpdir(), `quibble-${uuidv4()}.tmp`)
tempPathOf(fullPath, uuid) == TMP_DIR \o <<"quibble-" \o uuid \o ".tmp">>

fileRead(d, sessionPath) ==
    LET got == readFile(d, fullPathOf(sessionPath))
    IN  IF got = Throws("ENOENT") THEN Ok(<<>>) ELSE got

fileExists(d, sessionPath) ==
    Ok(access(d, fullPathOf(sessionPath)) = Ok(TRUE))

fileList(d, sessionPath) ==
    LET got == readdir(d, fullPathOf(sessionPath))
    IN  IF got = Throws("ENOENT") THEN Ok({}) ELSE got

-----------------------------------------------------------------------------
(* SessionManager.computeStatistics *)

ZeroStatistics ==
    [total_issues_raised |-> 0,
     issues_resolved |-> 0,
     issues_disputed |-> 0,
     critical_unresolved |-> 0,
     major_unresolved |-> 0,
     total_opportunities_raised |-> 0,
     opportunities_accepted |-> 0,
     opportunities_rejected |-> 0,
     consensus_reached |-> FALSE]

\* A faulty severityById: every id is taken for a critical issue.
severityAlwaysCritical(review, id) == "critical"

\* new Map(review.issues.map(i => [i.id, i.severity])).get(id): the severity of
\* the last issue with that id, undefined if there is none.
severityById(review, id) ==
    LET at == {i \in DOMAIN review.issues : review.issues[i].id = id}
    IN  IF at = {} THEN "undefined"
        ELSE review.issues[CHOOSE i \in at : \A j \in at : j <= i].severity

\* What one pass of the loop over the rounds adds to stats.
AddRound(store, stats, round) ==
    LET hasReview == exists(store, CodexReviewPath(round))
        hasResponse == exists(store, ClaudeResponsePath(round))
        hasConsensus == exists(store, ConsensusPath(round))
        review == store[CodexReviewPath(round)]
        response == store[ClaudeResponsePath(round)]
        consensus == store[ConsensusPath(round)]
        Count(seq, Test(_)) == Cardinality({i \in DOMAIN seq : Test(seq[i])})
        isOpp(r) == startsWith(r.feedback_id, OPP_PREFIX)
        isIssue(r) == ~isOpp(r) /\ ~hasConsensus /\ startsWith(r.feedback_id, ISSUE_PREFIX)
        oppAccepted(r) == isOpp(r) /\ r.verdict = "agree"
        oppRejected(r) == isOpp(r) /\ r.verdict = "disagree"
        issueAgreed(r) == isIssue(r) /\ r.verdict = "agree"
        resolved(r) == r.resolution_status \in {"resolved", "validly_disputed"}
        inadequate(r) == r.resolution_status = "inadequate"
        inadequateOf(sev) ==
            Count(consensus.feedback_responses,
                  LAMBDA r : inadequate(r)
                             /\ severityById(review, r.original_feedback_id) = sev)
        newOf(sev) == Count(consensus.new_issues, LAMBDA i : i.severity = sev)
        both == hasConsensus /\ hasReview
    IN  [total_issues_raised |->
            stats.total_issues_raised
            + (IF hasReview THEN Len(review.issues) ELSE 0)
            + (IF both THEN Len(consensus.new_issues) ELSE 0),
         issues_resolved |->
            stats.issues_resolved
            + (IF hasResponse THEN Count(response.responses, issueAgreed) ELSE 0)
            + (IF both THEN Count(consensus.feedback_responses, resolved) ELSE 0),
         issues_disputed |->
            stats.issues_disputed
            + (IF both THEN Count(consensus.feedback_responses, inadequate) ELSE 0),
         critical_unresolved |->
            stats.critical_unresolved
            + (IF both THEN inadequateOf("critical") + newOf("critical") ELSE 0),
         major_unresolved |->
            stats.major_unresolved
            + (IF both THEN inadequateOf("major") + newOf("major") ELSE 0),
         total_opportunities_raised |->
            stats.total_opportunities_raised
            + (IF hasReview THEN Len(review.opportunities) ELSE 0),
         opportunities_accepted |->
            stats.opportunities_accepted
            + (IF hasResponse THEN Count(response.responses, oppAccepted) ELSE 0),
         opportunities_rejected |->
            stats.opportunities_rejected
            + (IF hasResponse THEN Count(response.responses, oppRejected) ELSE 0),
         consensus_reached |->
            \/ stats.consensus_reached
            \/ hasResponse /\ response.consensus_assessment.reached]

\* for (let round = 1; round <= this.manifest.current_round; round++) ...
RECURSIVE StatisticsUpTo(_, _)
StatisticsUpTo(store, round) ==
    IF round < 1 THEN ZeroStatistics
    ELSE AddRound(store, StatisticsUpTo(store, round - 1), round)

computeStatistics(store, manifest) == StatisticsUpTo(store, manifest.current_round)

-----------------------------------------------------------------------------
(* SessionManager *)

\* null and undefined; a value that may be null is kept as a sequence of at
\* most one element.
Null == <<>>
Some(v) == <<v>>

\* new Date().toISOString() in the n-th process working on the session: a
\* later process reads a later clock.
Timestamp(n) == Some(n)

createInitialManifest(maxRounds) ==
    [status |-> "in_progress",
     completed_at |-> Null,
     current_round |-> 1,
     current_phase |-> "pending",
     max_rounds |-> maxRounds,
     statistics |-> ZeroStatistics]

startRound(m, round) ==
    [m EXCEPT !.current_round = round, !.current_phase = "pending"]

\* A faulty setPhase: the phase is left as it was.
keepPhase(m, phase) == m

setPhase(m, phase) == [m EXCEPT !.current_phase = phase]

complete(m, status, store, now) ==
    [m EXCEPT !.status = status,
              !.completed_at = now,
              !.statistics = computeStatistics(store, m)]

\* A faulty loadExisting: the stored statistics are taken as they are.
loadStored(store) == store[MANIFEST_PATH]

\* loadExisting, when the manifest is in the store.
loadExisting(store) ==
    LET loaded == store[MANIFEST_PATH]
    IN  [loaded EXCEPT !.statistics = computeStatistics(store, loaded)]

\* A faulty findResumePoint: a round without a document is begun anew.
findResumePointFromReview(store, m) ==
    LET round == m.current_round
        hasDocument == exists(store, DocumentPath(round))
    IN  IF hasDocument THEN [round |-> round + 1, phase |-> "pending"]
        ELSE [round |-> round, phase |-> "codex_review"]

\* A faulty findResumePoint: the response is looked for before the document.
findResumePointResponseFirst(store, m) ==
    LET round == m.current_round
        hasCodexReview == exists(store, CodexReviewPath(round))
        hasClaudeResponse == exists(store, ClaudeResponsePath(round))
        hasDocument == exists(store, DocumentPath(round))
    IN  IF hasClaudeResponse THEN [round |-> round, phase |-> "consensus_check"]
        ELSE IF hasDocument THEN [round |-> round + 1, phase |-> "pending"]
        ELSE IF hasCodexReview THEN [round |-> round, phase |-> "claude_response"]
        ELSE [round |-> round, phase |-> "codex_review"]

\* A faulty findResumePoint: a stored response is taken for a finished round.
findResumePointAfterResponse(store, m) ==
    LET round == m.current_round
        hasCodexReview == exists(store, CodexReviewPath(round))
        hasClaudeResponse == exists(store, ClaudeResponsePath(round))
        hasDocument == exists(store, DocumentPath(round))
    IN  IF hasDocument \/ hasClaudeResponse
        THEN [round |-> round + 1, phase |-> "pending"]
        ELSE IF hasCodexReview THEN [round |-> round, phase |-> "claude_response"]
        ELSE [round |-> round, phase |-> "codex_review"]

findResumePoint(store, m) ==
    LET round == m.current_round
        hasCodexReview == exists(store, CodexReviewPath(round))
        hasClaudeResponse == exists(store, ClaudeResponsePath(round))
        hasDocument == exists(store, DocumentPath(round))
    IN  IF hasDocument THEN [round |-> round + 1, phase |-> "pending"]
        ELSE IF hasClaudeResponse THEN [round |-> round, phase |-> "consensus_check"]
        ELSE IF hasCodexReview THEN [round |-> round, phase |-> "claude_response"]
        ELSE [round |-> round, phase |-> "codex_review"]

-----------------------------------------------------------------------------
(* Orchestrator: the pure parts *)

determineMaxRoundsStatus(stats) ==
    IF stats.critical_unresolved > 0 THEN "max_rounds_reached_unsafe"
    ELSE IF stats.major_unresolved > 0 THEN "max_rounds_reached_warning"
    ELSE "max_rounds_reached"

\* A faulty statusToExitCode: a warning exits with 0.
statusToExitCodeWarningZero(status) ==
    CASE status \in {"completed", "max_rounds_reached"} -> 0
      [] status = "max_rounds_reached_warning" -> 0
      [] status \in {"max_rounds_reached_unsafe", "failed"} -> 2
      [] OTHER -> 0

statusToExitCode(status) ==
    CASE status \in {"completed", "max_rounds_reached"} -> 0
      [] status = "max_rounds_reached_warning" -> 1
      [] status \in {"max_rounds_reached_unsafe", "failed"} -> 2
      [] OTHER -> 0

\* while (currentRound <= this.config.maxRounds)
loopContinues(currentRound, cfg) == currentRound <= cfg.maxRounds

\* if (this.previousFeedbackHash === feedbackHash)
isStalemate(previousFeedbackHash, feedbackHash) ==
    previousFeedbackHash = Some(feedbackHash)

\* if (claudeResponse.consensus_assessment.reached)
\* A faulty consensusClaimed: the check is asked for whatever the response says.
consensusClaimedAlways(response) ==
    response.consensus_assessment.reached \in BOOLEAN

consensusClaimed(response) == response.consensus_assessment.reached

\* if (consensus.verdict === 'approve')
\* A faulty isApproved: no verdict counts as an approval.
isApprovedNever(consensus) == consensus.verdict = "none"

isApproved(consensus) == consensus.verdict = "approve"

\* The phase timings finalizeRoundTiming is given.
StalemateTimings == {"codex_review_ms"}
SkippedTimings == {"codex_review_ms", "claude_response_ms"}
ConsensusTimings == {"codex_review_ms", "claude_response_ms", "consensus_check_ms"}

-----------------------------------------------------------------------------
(* State *)

VARIABLES
    reviewer,       \* the reviews the critiquing collaborator may return in
                    \* this session
    storage,        \* the session store: path -> content (outlives a process)
    outputFile,     \* the content of config.outputFile, Null before it is written
    process,        \* how many times the session was resumed so far
    config,         \* the QuibbleConfig of the running process
    manifest,       \* SessionManager.manifest, the manifest in memory
    orch,           \* the Orchestrator's fields and the locals of run()
    pc,             \* where the running process is, or how it ended
    events,         \* the events the running process emitted, in order
    result,         \* the OrchestratorResult run() returned, Null before
    exitCode,       \* the number execute() returned, Null before
    invocations,    \* the collaborator invocations made so far, as
                    \* [kind, round] (history)
    completeCalls,  \* how often SessionManager.complete was called (history)
    failure,        \* where run() was when it failed, Null if it did not
                    \* (history)
    memory,         \* MemoryStorageAdapter.data: key -> content
    disk,           \* the file system a FileStorageAdapter works on: its
                    \* directories and its files with their content
    written,        \* the content last passed to write, per path (history)
    call            \* the adapter or client call under study: its
                    \* arguments and what it returned

vars == <<reviewer, storage, outputFile, process, config, manifest, orch, pc, events,
          result, exitCode, invocations, completeCalls, failure, memory, disk,
          written, call>>

\* The Orchestrator as constructed, before run().
NewOrchestrator ==
    [currentDocument |-> "",
     previousFeedbackHash |-> Null,
     currentRound |-> 0,
     currentPhase |-> "pending",
     codexReview |-> Null,
     claudeResponse |-> Null,
     consensus |-> Null,
     status |-> "in_progress",
     totalRounds |-> 0]

\* Positions of a process that has ended.
EndedPcs == {"done", "failed", "killed", "not_found"}

\* Positions inside orchestrator.run(), which execute() wraps in try/catch.
RunPcs ==
    {"run", "loop", "phase1", "review", "stalemate_timing", "phase2", "respond",
     "save_document", "phase3", "consensus", "approve_timing", "round_timing",
     "set_complete", "save_final", "write_output", "complete", "save_summary"}

\* The phase a position of run() belongs to.
PhaseOf(p) ==
    CASE p \in {"phase1", "review", "stalemate_timing"} -> "codex_review"
      [] p \in {"phase2", "respond", "save_document"} -> "claude_response"
      [] p \in {"phase3", "consensus", "approve_timing", "round_timing"} ->
            "consensus_check"
      [] OTHER -> "none"

\* A faulty emit: the event is put before the earlier ones.
EmitAhead(event) == events' = <<event>> \o events

Emit(event) == events' = Append(events, event)

saveManifest(m) == storage' = write(storage, MANIFEST_PATH, m)

\* A fresh session: execute() has built the SessionManager; nothing is stored.
Init ==
    /\ reviewer \in ReviewerOutputs
    /\ storage = NoFiles
    /\ outputFile = Null
    /\ process = 0
    /\ config \in [maxRounds : 1..MaxRoundsBound, resumeSessionId : {FALSE}]
    /\ manifest = createInitialManifest(config.maxRounds)
    /\ orch = NewOrchestrator
    /\ pc = "initialize"
    /\ events = <<>>
    /\ result = Null
    /\ exitCode = Null
    /\ invocations = {}
    /\ completeCalls = 0
    /\ failure = Null
    /\ memory = NoFiles
    /\ disk = NewDisk
    /\ written = NoFiles
    /\ call = NoCall

-----------------------------------------------------------------------------
(* execute(): starting and resuming *)

\* session.initialize()
Initialize ==
    /\ pc = "initialize"
    /\ saveManifest(manifest)
    /\ pc' = "run"
    /\ UNCHANGED <<memory, disk, written, call, reviewer, outputFile, process, config, manifest, orch,
                   events, result, exitCode, invocations, completeCalls,
                   failure>>

\* quibble --resume <id> [--max-rounds n], once the earlier process has ended:
\* a new SessionManager, loadExisting(), and a new Orchestrator.
Resume ==
    /\ pc \in EndedPcs
    /\ process < MaxResumes
    /\ process' = process + 1
    /\ \E maxRounds \in 1..MaxRoundsBound :
          config' = [maxRounds |-> maxRounds, resumeSessionId |-> TRUE]
    /\ IF exists(storage, MANIFEST_PATH)
       THEN /\ manifest' = loadExisting(storage)
            /\ pc' = "run"
            /\ exitCode' = Null
       ELSE \* throw new Error('Session not found'), caught in run(argv)
            /\ manifest' = createInitialManifest(config'.maxRounds)
            /\ pc' = "not_found"
            /\ exitCode' = Some(1)
    /\ orch' = NewOrchestrator
    /\ events' = <<>>
    /\ result' = Null
    /\ failure' = Null
    /\ UNCHANGED <<memory, disk, written, call, reviewer, storage, outputFile, invocations, completeCalls>>

\* The process is interrupted: everything in memory is lost.
Interrupt ==
    /\ pc \in RunPcs \cup {"initialize"}
    /\ pc' = "killed"
    /\ orch' = NewOrchestrator
    /\ manifest' = createInitialManifest(config.maxRounds)
    /\ events' = <<>>
    /\ UNCHANGED <<memory, disk, written, call, reviewer, storage, outputFile, process, config, result,
                   exitCode, invocations, completeCalls, failure>>

\* A collaborator invocation, a storage operation or a file operation inside
\* orchestrator.run() fails: the catch block of execute().
Throw ==
    /\ pc \in RunPcs
    /\ Emit([type |-> "error", code |-> "ORCHESTRATION_ERROR",
             phase |-> "orchestration", round |-> manifest.current_round,
             recoverable |-> TRUE])
    /\ exitCode' = Some(2)
    /\ failure' = Some([phase |-> PhaseOf(pc), round |-> orch.currentRound])
    /\ pc' = "failed"
    /\ UNCHANGED <<memory, disk, written, call, reviewer, storage, outputFile, process, config, manifest,
                   orch, result, invocations, completeCalls>>

-----------------------------------------------------------------------------
(* Orchestrator.run() *)

\* Read the input file, find the resume point, emit start, and reload the
\* document of the round before when not at round 1.
RunStart ==
    /\ pc = "run"
    /\ LET point == findResumePoint(storage, manifest)
           previous == DocumentPath(point.round - 1)
       IN  orch' = [orch EXCEPT
                !.currentRound = point.round,
                !.currentPhase = point.phase,
                !.currentDocument =
                    IF point.round > 1 /\ exists(storage, previous)
                    THEN storage[previous] ELSE InputDocument]
    /\ Emit([type |-> "start", max_rounds |-> config.maxRounds])
    /\ pc' = "loop"
    /\ UNCHANGED <<memory, disk, written, call, reviewer, storage, outputFile, process, config, manifest,
                   result, exitCode, invocations, completeCalls, failure>>

\* The loop guard.  In the loop: emitRoundStart and session.startRound.  Past
\* it: terminate(this.determineMaxRoundsStatus(), currentRound - 1).
LoopHead ==
    /\ pc = "loop"
    /\ IF loopContinues(orch.currentRound, config)
       THEN /\ Emit([type |-> "round_start", round |-> orch.currentRound])
            /\ manifest' = startRound(manifest, orch.currentRound)
            /\ saveManifest(manifest')
            /\ orch' = [orch EXCEPT !.codexReview = Null,
                                    !.claudeResponse = Null,
                                    !.consensus = Null]
            /\ pc' = "phase1"
       ELSE /\ orch' = [orch EXCEPT
                    !.status = determineMaxRoundsStatus(manifest.statistics),
                    !.totalRounds = orch.currentRound - 1]
            /\ pc' = "save_final"
            /\ UNCHANGED <<storage, manifest, events>>
    /\ UNCHANGED <<memory, disk, written, call, reviewer, outputFile, process, config, result, exitCode,
                   invocations, completeCalls, failure>>

\* The stalemate check on the review of the round: the orchestrator with
\* previousFeedbackHash updated, and where run() goes on.
AfterReview(o, review) ==
    LET feedbackHash == hashFeedback(review)
    IN  IF isStalemate(o.previousFeedbackHash, feedbackHash)
        THEN [orch |-> [o EXCEPT !.codexReview = Some(review)],
              pc |-> "stalemate_timing"]
        ELSE [orch |-> [o EXCEPT !.codexReview = Some(review),
                                 !.previousFeedbackHash = Some(feedbackHash)],
              pc |-> "phase2"]

\* Phase 1 when the review is still to be made: setPhase('codex_review').
\* Otherwise the stored review is loaded and checked for a stalemate.
Phase1 ==
    /\ pc = "phase1"
    /\ IF orch.currentPhase \in {"codex_review", "pending"}
       THEN /\ manifest' = setPhase(manifest, "codex_review")
            /\ saveManifest(manifest')
            /\ pc' = "review"
            /\ orch' = orch
       ELSE /\ exists(storage, CodexReviewPath(orch.currentRound))
            /\ LET next == AfterReview(orch, storage[CodexReviewPath(orch.currentRound)])
               IN  orch' = next.orch /\ pc' = next.pc
            /\ UNCHANGED <<storage, manifest>>
    /\ UNCHANGED <<memory, disk, written, call, reviewer, outputFile, process, config, events, result,
                   exitCode, invocations, completeCalls, failure>>

\* runCodexReview: the critiquing collaborator returns a review, which is
\* saved and announced; back in run(), currentPhase = 'claude_response' and
\* the stalemate check.
Review ==
    /\ pc = "review"
    /\ \E review \in reviewer :
          /\ storage' = write(storage, CodexReviewPath(orch.currentRound), review)
          /\ LET next == AfterReview([orch EXCEPT !.currentPhase = "claude_response"],
                                     review)
             IN  orch' = next.orch /\ pc' = next.pc
    /\ invocations' = invocations \cup
            {[kind |-> "review", round |-> orch.currentRound]}
    /\ Emit([type |-> "codex_review", round |-> orch.currentRound])
    /\ UNCHANGED <<memory, disk, written, call, reviewer, outputFile, process, config, manifest, result,
                   exitCode, completeCalls, failure>>

\* On a stalemate: finalizeRoundTiming, then terminate('max_rounds_reached',
\* currentRound).
StalemateTiming ==
    /\ pc = "stalemate_timing"
    /\ storage' = write(storage, TimingsPath(orch.currentRound), StalemateTimings)
    /\ Emit([type |-> "round_complete", round |-> orch.currentRound])
    /\ orch' = [orch EXCEPT !.status = "max_rounds_reached",
                            !.totalRounds = orch.currentRound]
    /\ pc' = "save_final"
    /\ UNCHANGED <<memory, disk, written, call, reviewer, outputFile, process, config, manifest, result,
                   exitCode, invocations, completeCalls, failure>>

\* Phase 2 when the response is still to be made: setPhase('claude_response').
\* Otherwise the stored response is loaded.
Phase2 ==
    /\ pc = "phase2"
    /\ IF orch.currentPhase = "claude_response"
       THEN /\ manifest' = setPhase(manifest, "claude_response")
            /\ saveManifest(manifest')
            /\ pc' = "respond"
            /\ orch' = orch
       ELSE /\ exists(storage, ClaudeResponsePath(orch.currentRound))
            /\ orch' = [orch EXCEPT
                    !.claudeResponse =
                        Some(storage[ClaudeResponsePath(orch.currentRound)])]
            /\ pc' = "save_document"
            /\ UNCHANGED <<storage, manifest>>
    /\ UNCHANGED <<memory, disk, written, call, reviewer, outputFile, process, config, events, result,
                   exitCode, invocations, completeCalls, failure>>

\* A faulty runClaudeResponse: the response is not saved.
RespondUnsaved ==
    /\ pc = "respond"
    /\ \E response \in Responses :
          orch' = [orch EXCEPT !.claudeResponse = Some(response),
                               !.currentPhase = "consensus_check"]
    /\ invocations' = invocations \cup
            {[kind |-> "response", round |-> orch.currentRound]}
    /\ Emit([type |-> "claude_response", round |-> orch.currentRound])
    /\ pc' = "save_document"
    /\ UNCHANGED <<memory, disk, written, call, reviewer, storage, outputFile, process,
                   config, manifest, result, exitCode, completeCalls, failure>>

\* runClaudeResponse: the authoring collaborator returns a response, which is
\* saved and announced; back in run(), currentPhase = 'consensus_check'.
Respond ==
    /\ pc = "respond"
    /\ \E response \in Responses :
          /\ storage' = write(storage, ClaudeResponsePath(orch.currentRound), response)
          /\ orch' = [orch EXCEPT !.claudeResponse = Some(response),
                                  !.currentPhase = "consensus_check"]
    /\ invocations' = invocations \cup
            {[kind |-> "response", round |-> orch.currentRound]}
    /\ Emit([type |-> "claude_response", round |-> orch.currentRound])
    /\ pc' = "save_document"
    /\ UNCHANGED <<memory, disk, written, call, reviewer, outputFile, process, config, manifest, result,
                   exitCode, completeCalls, failure>>

\* this.currentDocument = claudeResponse.updated_document; saveDocument.
SaveDocument ==
    /\ pc = "save_document"
    /\ LET document == orch.claudeResponse[1].updated_document
       IN  /\ orch' = [orch EXCEPT !.currentDocument = document]
           /\ storage' = write(storage, DocumentPath(orch.currentRound), document)
    /\ pc' = "phase3"
    /\ UNCHANGED <<memory, disk, written, call, reviewer, outputFile, process, config, manifest, events,
                   result, exitCode, invocations, completeCalls, failure>>

\* Phase 3: setPhase('consensus_check'); the check is made when the response
\* claims consensus, else emitConsensus(round, false, outstanding).
Phase3 ==
    /\ pc = "phase3"
    /\ IF orch.currentPhase = "consensus_check"
       THEN /\ manifest' = setPhase(manifest, "consensus_check")
            /\ saveManifest(manifest')
            /\ IF consensusClaimed(orch.claudeResponse[1])
               THEN /\ pc' = "consensus"
                    /\ events' = events
               ELSE /\ Emit([type |-> "consensus", round |-> orch.currentRound,
                             reached |-> FALSE])
                    /\ pc' = "round_timing"
       ELSE /\ pc' = "set_complete"
            /\ UNCHANGED <<storage, manifest, events>>
    /\ UNCHANGED <<memory, disk, written, call, reviewer, outputFile, process, config, orch, result,
                   exitCode, invocations, completeCalls, failure>>

\* runConsensusCheck: the critiquing collaborator returns a consensus check,
\* which is saved; back in run(), emitConsensus.
Consensus ==
    /\ pc = "consensus"
    /\ \E consensus \in Consensuses :
          /\ storage' = write(storage, ConsensusPath(orch.currentRound), consensus)
          /\ orch' = [orch EXCEPT !.consensus = Some(consensus)]
          /\ Emit([type |-> "consensus", round |-> orch.currentRound,
                   reached |-> isApproved(consensus)])
          /\ pc' = IF isApproved(consensus) THEN "approve_timing" ELSE "round_timing"
    /\ invocations' = invocations \cup
            {[kind |-> "consensus", round |-> orch.currentRound]}
    /\ UNCHANGED <<memory, disk, written, call, reviewer, outputFile, process, config, manifest, result,
                   exitCode, completeCalls, failure>>

\* On approve: finalizeRoundTiming, then terminate('completed', currentRound).
ApproveTiming ==
    /\ pc = "approve_timing"
    /\ storage' = write(storage, TimingsPath(orch.currentRound), ConsensusTimings)
    /\ Emit([type |-> "round_complete", round |-> orch.currentRound])
    /\ orch' = [orch EXCEPT !.status = "completed",
                            !.totalRounds = orch.currentRound]
    /\ pc' = "save_final"
    /\ UNCHANGED <<memory, disk, written, call, reviewer, outputFile, process, config, manifest, result,
                   exitCode, invocations, completeCalls, failure>>

\* On reject, or when the check was skipped: finalizeRoundTiming.
RoundTiming ==
    /\ pc = "round_timing"
    /\ storage' = write(storage, TimingsPath(orch.currentRound),
                        IF orch.consensus = Null THEN SkippedTimings
                        ELSE ConsensusTimings)
    /\ Emit([type |-> "round_complete", round |-> orch.currentRound])
    /\ pc' = "set_complete"
    /\ UNCHANGED <<memory, disk, written, call, reviewer, outputFile, process, config, manifest, orch,
                   result, exitCode, invocations, completeCalls, failure>>

\* setPhase('complete'); currentRound++; currentPhase = 'pending'.
SetComplete ==
    /\ pc = "set_complete"
    /\ manifest' = setPhase(manifest, "complete")
    /\ saveManifest(manifest')
    /\ orch' = [orch EXCEPT !.currentRound = orch.currentRound + 1,
                            !.currentPhase = "pending"]
    /\ pc' = "loop"
    /\ UNCHANGED <<memory, disk, written, call, reviewer, outputFile, process, config, events, result,
                   exitCode, invocations, completeCalls, failure>>

-----------------------------------------------------------------------------
(* Orchestrator.terminate(status, totalRounds) *)

\* session.saveFinalDocument(this.currentDocument)
SaveFinalDocument ==
    /\ pc = "save_final"
    /\ storage' = write(storage, FINAL_DOCUMENT_PATH, orch.currentDocument)
    /\ pc' = "write_output"
    /\ UNCHANGED <<memory, disk, written, call, reviewer, outputFile, process, config, manifest, orch,
                   events, result, exitCode, invocations, completeCalls,
                   failure>>

\* fs.promises.writeFile(this.config.outputFile, this.currentDocument)
WriteOutput ==
    /\ pc = "write_output"
    /\ outputFile' = Some(orch.currentDocument)
    /\ pc' = "complete"
    /\ UNCHANGED <<memory, disk, written, call, reviewer, storage, process, config, manifest, orch, events,
                   result, exitCode, invocations, completeCalls, failure>>

\* session.complete(status)
Complete ==
    /\ pc = "complete"
    /\ manifest' = complete(manifest, orch.status, storage, Timestamp(process))
    /\ saveManifest(manifest')
    /\ completeCalls' = completeCalls + 1
    /\ pc' = "save_summary"
    /\ UNCHANGED <<memory, disk, written, call, reviewer, outputFile, process, config, orch, events,
                   result, exitCode, invocations, failure>>

\* saveFinalSummary, emitComplete and the result; execute() returns
\* result.exitCode.
SaveFinalSummary ==
    /\ pc = "save_summary"
    /\ LET code == statusToExitCode(orch.status)
       IN  /\ storage' = write(storage, FINAL_SUMMARY_PATH,
                    [status |-> orch.status,
                     exit_code |-> code,
                     total_rounds |-> orch.totalRounds,
                     statistics |-> manifest.statistics])
           /\ Emit([type |-> "complete", status |-> orch.status,
                    exit_code |-> code, total_rounds |-> orch.totalRounds,
                    statistics |-> manifest.statistics])
           /\ result' = Some([status |-> orch.status,
                              exitCode |-> code,
                              finalDocument |-> orch.currentDocument,
                              totalRounds |-> orch.totalRounds])
           /\ exitCode' = Some(code)
    /\ pc' = "done"
    /\ UNCHANGED <<memory, disk, written, call, reviewer, outputFile, process, config, manifest, orch,
                   invocations, completeCalls, failure>>

-----------------------------------------------------------------------------

Next ==
    \/ Initialize
    \/ Resume
    \/ Interrupt
    \/ Throw
    \/ RunStart
    \/ LoopHead
    \/ Phase1
    \/ Review
    \/ StalemateTiming
    \/ Phase2
    \/ Respond
    \/ SaveDocument
    \/ Phase3
    \/ Consensus
    \/ ApproveTiming
    \/ RoundTiming
    \/ SetComplete
    \/ SaveFinalDocument
    \/ WriteOutput
    \/ Complete
    \/ SaveFinalSummary

Spec == Init /\ [][Next]_vars

-----------------------------------------------------------------------------
(* A SessionManager used on its own, as session.test.ts does: after          *)
(* initialize(), artifacts of any round are saved in any order, rounds are   *)
(* started, and the resume point is asked for.                               *)

InitSession ==
    /\ reviewer = {ReviewA}
    /\ storage = write(NoFiles, MANIFEST_PATH, createInitialManifest(MaxRoundsBound))
    /\ outputFile = Null
    /\ process = 0
    /\ config = [maxRounds |-> MaxRoundsBound, resumeSessionId |-> FALSE]
    /\ manifest = createInitialManifest(MaxRoundsBound)
    /\ orch = NewOrchestrator
    /\ pc = "session"
    /\ events = <<>>
    /\ result = Null
    /\ exitCode = Null
    /\ invocations = {}
    /\ completeCalls = 0
    /\ failure = Null
    /\ memory = NoFiles
    /\ disk = NewDisk
    /\ written = NoFiles
    /\ call = NoCall

\* What the calls below leave alone.
SessionOnly ==
    UNCHANGED <<memory, disk, written, call, reviewer, outputFile, process, config, events, result, exitCode,
                invocations, completeCalls, failure>>

SessionSaveCodexReview ==
    /\ pc \in {"session", "asked"}
    /\ \E round \in 1..MaxRoundsBound, review \in reviewer :
          storage' = write(storage, CodexReviewPath(round), review)
    /\ pc' = "session"
    /\ UNCHANGED <<manifest, orch>>
    /\ SessionOnly

SessionSaveClaudeResponse ==
    /\ pc \in {"session", "asked"}
    /\ \E round \in 1..MaxRoundsBound, response \in Responses :
          storage' = write(storage, ClaudeResponsePath(round), response)
    /\ pc' = "session"
    /\ UNCHANGED <<manifest, orch>>
    /\ SessionOnly

SessionSaveDocument ==
    /\ pc \in {"session", "asked"}
    /\ \E round \in 1..MaxRoundsBound :
          storage' = write(storage, DocumentPath(round), InputDocument)
    /\ pc' = "session"
    /\ UNCHANGED <<manifest, orch>>
    /\ SessionOnly

SessionStartRound ==
    /\ pc \in {"session", "asked"}
    /\ \E round \in 1..MaxRoundsBound : manifest' = startRound(manifest, round)
    /\ saveManifest(manifest')
    /\ pc' = "session"
    /\ UNCHANGED orch
    /\ SessionOnly

\* const { round, phase } = await session.findResumePoint()
SessionFindResumePoint ==
    /\ pc = "session"
    /\ LET point == findResumePoint(storage, manifest)
       IN  orch' = [orch EXCEPT !.currentRound = point.round,
                                !.currentPhase = point.phase]
    /\ pc' = "asked"
    /\ UNCHANGED <<storage, manifest>>
    /\ SessionOnly

NextSession ==
    \/ SessionSaveCodexReview
    \/ SessionSaveClaudeResponse
    \/ SessionSaveDocument
    \/ SessionStartRound
    \/ SessionFindResumePoint

SpecSession == InitSession /\ [][NextSession]_vars

-----------------------------------------------------------------------------
(* JSON values and the text of a collaborator's output.  A value is tagged  *)
(* with its type; a text is a sequence of tokens: the two sentinels, a code *)
(* fence, a brace, white space, other text, or the text of a JSON value.    *)

JsUndefined == <<"undefined">>
JsNull == <<"null">>
JsBoolean(b) == <<"boolean", b>>
JsNumber(tenths) == <<"number", tenths>>      \* n stands for n / 10
JsNaN == <<"NaN">>
JsString(str) == <<"string", str>>
JsArray(items) == <<"array", items>>
JsObject(fields) == <<"object", fields>>
EmptyObject == JsObject([n \in {} |-> JsNull])

\* typeof value
typeOf(value) ==
    IF value[1] \in {"null", "array"} THEN "object"
    ELSE IF value[1] = "NaN" THEN "number"
    ELSE value[1]

\* record.name: undefined when the value has no such property
Get(value, name) ==
    IF value[1] = "object" /\ name \in DOMAIN value[2] THEN value[2][name]
    ELSE JsUndefined

\* !value
Falsy(value) ==
    \/ value[1] \in {"undefined", "null", "NaN"}
    \/ value[1] = "boolean" /\ ~value[2]
    \/ value[1] = "number" /\ value[2] = 0
    \/ value[1] = "string" /\ value[2] = ""

Token(kind) == [kind |-> kind, json |-> JsUndefined]
Literal(value) == [kind |-> "json", json |-> value]

SENTINEL_START == Token("start")
SENTINEL_END == Token("end")
FENCE == Token("fence")
OPEN_BRACE == Token("{")
CLOSE_BRACE == Token("}")
SPACE == Token("space")
PROSE == Token("prose")

\* content.indexOf(...): the first position that satisfies the test, 0 if none
\* (positions count from 1)
FirstIndex(content, from, hits) ==
    LET found == {i \in from..Len(content) : i \in hits}
    IN  IF found = {} THEN 0 ELSE CHOOSE i \in found : \A k \in found : i <= k

IndexOfKind(content, from, kind) ==
    FirstIndex(content, from, {i \in DOMAIN content : content[i].kind = kind})

\* the text of the token starts with '{' / ends with '}'
OpensBrace(token) ==
    token.kind = "{" \/ (token.kind = "json" /\ token.json[1] = "object")
ClosesBrace(token) ==
    token.kind = "}" \/ (token.kind = "json" /\ token.json[1] = "object")

\* String.prototype.trim
RECURSIVE trim(_)
trim(content) ==
    IF content = <<>> THEN content
    ELSE IF Head(content).kind = "space" THEN trim(Tail(content))
    ELSE IF content[Len(content)].kind = "space"
         THEN trim(SubSeq(content, 1, Len(content) - 1))
    ELSE content

\* JSON.parse(content): white space around one value is allowed; the text
\* of a value is one literal token or an empty pair of braces.
jsonParse(content) ==
    LET body == trim(content)
    IN  IF Len(body) = 1 /\ body[1].kind = "json"
        THEN [ok |-> TRUE, value |-> body[1].json]
        ELSE IF /\ Len(body) >= 2
                /\ body[1].kind = "{"
                /\ body[Len(body)].kind = "}"
                /\ \A i \in 2..(Len(body) - 1) : body[i].kind = "space"
        THEN [ok |-> TRUE, value |-> EmptyObject]
        ELSE [ok |-> FALSE, value |-> JsUndefined]

tryParseJson(content) ==
    IF jsonParse(content).ok THEN jsonParse(content).value ELSE JsNull

\* A string or null: Null, or Some(content).
extractBetweenSentinels(content) ==
    LET startIdx == IndexOfKind(content, 1, "start")
        endIdx == IndexOfKind(content, 1, "end")
    IN  IF startIdx = 0 \/ endIdx = 0 \/ endIdx <= startIdx THEN Null
        ELSE Some(trim(SubSeq(content, startIdx + 1, endIdx - 1)))

\* content.match(/```(?:json)?\s*\n?([\s\S]*?)\n?```/)
extractFromCodeFence(content) ==
    LET opening == IndexOfKind(content, 1, "fence")
        closing == IF opening = 0 THEN 0
                   ELSE IndexOfKind(content, opening + 1, "fence")
    IN  IF closing = 0 THEN Null
        ELSE Some(trim(SubSeq(content, opening + 1, closing - 1)))

\* for (let i = content.length - 1; i >= firstBrace; i--)
RECURSIVE BraceScan(_, _, _)
BraceScan(content, firstBrace, i) ==
    IF i < firstBrace THEN Null
    ELSE IF /\ ClosesBrace(content[i])
            /\ ~Falsy(tryParseJson(SubSeq(content, firstBrace, i)))
         THEN Some(SubSeq(content, firstBrace, i))
    ELSE BraceScan(content, firstBrace, i - 1)

extractBraceContent(content) ==
    LET firstBrace == FirstIndex(content, 1,
                        {i \in DOMAIN content : OpensBrace(content[i])})
    IN  IF firstBrace = 0 THEN Null
        ELSE BraceScan(content, firstBrace, Len(content))

\* !str for a string or null
Blank(str) == str = Null \/ str = Some(<<>>)

extractJsonValue(output) ==
    LET sentinels == extractBetweenSentinels(output)
        jsonContent == IF Blank(sentinels) THEN trim(output) ELSE sentinels[1]
        first == tryParseJson(jsonContent)
        fenceContent == extractFromCodeFence(output)
        second == IF Falsy(first) /\ ~Blank(fenceContent)
                  THEN tryParseJson(fenceContent[1]) ELSE first
        braceContent == IF Falsy(second) THEN extractBraceContent(output) ELSE Null
        third == IF Falsy(second) /\ ~Blank(braceContent)
                 THEN tryParseJson(braceContent[1]) ELSE second
    IN  third

-----------------------------------------------------------------------------
(* The schemas of the three payloads, parseCliOutput, and the two clients.  *)

IsString(value) == value[1] = "string"
IsEnum(value, members) == value[1] = "string" /\ value[2] \in members
IsOptionalString(value) == value[1] \in {"undefined", "string"}
IsArray(value) == value[1] = "array"

IssueSchema(value) ==
    /\ value[1] = "object"
    /\ IsString(Get(value, "id"))
    /\ IsEnum(Get(value, "severity"), {"critical", "major", "minor"})
    /\ IsString(Get(value, "section"))
    /\ IsString(Get(value, "description"))
    /\ IsOptionalString(Get(value, "suggestion"))

OpportunitySchema(value) ==
    /\ value[1] = "object"
    /\ IsString(Get(value, "id"))
    /\ IsEnum(Get(value, "impact"), {"high", "medium", "low"})
    /\ IsString(Get(value, "section"))
    /\ IsString(Get(value, "description"))
    /\ IsOptionalString(Get(value, "suggestion"))

CodexReviewSchema(value) ==
    /\ value[1] = "object"
    /\ IsArray(Get(value, "issues"))
    /\ \A i \in DOMAIN Get(value, "issues")[2] : IssueSchema(Get(value, "issues")[2][i])
    /\ IsArray(Get(value, "opportunities"))
    /\ \A i \in DOMAIN Get(value, "opportunities")[2] :
          OpportunitySchema(Get(value, "opportunities")[2][i])
    /\ IsString(Get(value, "overall_assessment"))

FeedbackResponseSchema(value) ==
    /\ value[1] = "object"
    /\ IsString(Get(value, "feedback_id"))
    /\ IsEnum(Get(value, "verdict"), {"agree", "disagree", "partial"})
    /\ IsString(Get(value, "reasoning"))
    /\ IsString(Get(value, "action_taken"))

\* z.number().min(0).max(1), in tenths
ConsensusAssessmentSchema(value) ==
    /\ value[1] = "object"
    /\ Get(value, "reached")[1] = "boolean"
    /\ IsArray(Get(value, "outstanding_disagreements"))
    /\ \A i \in DOMAIN Get(value, "outstanding_disagreements")[2] :
          IsString(Get(value, "outstanding_disagreements")[2][i])
    /\ Get(value, "confidence")[1] = "number"
    /\ Get(value, "confidence")[2] >= 0
    /\ Get(value, "confidence")[2] <= 10
    /\ IsString(Get(value, "summary"))

ClaudeResponseSchema(value) ==
    /\ value[1] = "object"
    /\ IsArray(Get(value, "responses"))
    /\ \A i \in DOMAIN Get(value, "responses")[2] :
          FeedbackResponseSchema(Get(value, "responses")[2][i])
    /\ IsString(Get(value, "updated_document"))
    /\ ConsensusAssessmentSchema(Get(value, "consensus_assessment"))

FeedbackResolutionSchema(value) ==
    /\ value[1] = "object"
    /\ IsString(Get(value, "original_feedback_id"))
    /\ IsEnum(Get(value, "resolution_status"),
              {"resolved", "inadequate", "validly_disputed", "new_issues"})
    /\ IsString(Get(value, "comment"))

CodexConsensusSchema(value) ==
    /\ value[1] = "object"
    /\ IsEnum(Get(value, "verdict"), {"approve", "reject"})
    /\ IsArray(Get(value, "feedback_responses"))
    /\ \A i \in DOMAIN Get(value, "feedback_responses")[2] :
          FeedbackResolutionSchema(Get(value, "feedback_responses")[2][i])
    /\ IsArray(Get(value, "new_issues"))
    /\ \A i \in DOMAIN Get(value, "new_issues")[2] : IssueSchema(Get(value, "new_issues")[2][i])
    /\ IsString(Get(value, "summary"))

\* schema.safeParse(value).success
safeParse(schema, value) ==
    CASE schema = "CodexReview" -> CodexReviewSchema(value)
      [] schema = "ClaudeResponse" -> ClaudeResponseSchema(value)
      [] schema = "CodexConsensus" -> CodexConsensusSchema(value)

EXTRACT_FAILED == "Failed to extract valid JSON from output"
SCHEMA_FAILED == "Schema validation failed"

\* (parsed is bound as the element of a singleton so that it is evaluated
\* once, here and in the operators below)
parseCliOutput(output, schema) ==
    LET validated(parsed) ==
            IF Falsy(parsed)
            THEN [success |-> FALSE, error |-> EXTRACT_FAILED, data |-> JsUndefined]
            ELSE IF ~safeParse(schema, parsed)
            THEN [success |-> FALSE, error |-> SCHEMA_FAILED, data |-> JsUndefined]
            ELSE [success |-> TRUE, error |-> "", data |-> parsed]
    IN  CHOOSE parseResult \in {validated(parsed) : parsed \in {extractJsonValue(output)}} : TRUE

\* What a client call comes to: the value returned or the error thrown,
\* and how often repairClaudeResponse was called.
Returns(data, repairs) == [returned |-> Ok(data), repairs |-> repairs]
Fails(message, error, repairs) ==
    [returned |-> Throws(<<message, error>>), repairs |-> repairs]

\* CodexClient.review
CodexClientReview(output) ==
    LET outcome(parseResult) ==
            IF ~parseResult.success
            THEN Fails("Failed to parse Codex review", parseResult.error, 0)
            ELSE Returns(parseResult.data, 0)
    IN  CHOOSE o \in {outcome(parseResult) :
                        parseResult \in {parseCliOutput(output, "CodexReview")}} : TRUE

\* CodexClient.checkConsensus
CodexClientCheckConsensus(output) ==
    LET outcome(parseResult) ==
            IF ~parseResult.success
            THEN Fails("Failed to parse Codex consensus", parseResult.error, 0)
            ELSE Returns(parseResult.data, 0)
    IN  CHOOSE o \in {outcome(parseResult) :
                        parseResult \in {parseCliOutput(output, "CodexConsensus")}} : TRUE

normalizeVerdict(value) ==
    IF IsEnum(value, {"agree", "disagree", "partial"}) THEN value
    ELSE JsString("partial")

\* String.prototype.toLowerCase, on the strings of the payloads
toLowerCase(str) ==
    CASE str \in {"TRUE", "True"} -> "true"
      [] str \in {"FALSE", "False"} -> "false"
      [] str = "YES" -> "yes"
      [] OTHER -> str

normalizeBoolean(value) ==
    IF value[1] = "boolean" THEN value
    ELSE IF value[1] = "string" /\ toLowerCase(value[2]) = "true" THEN JsBoolean(TRUE)
    ELSE IF value[1] = "string" /\ toLowerCase(value[2]) = "false" THEN JsBoolean(FALSE)
    ELSE JsBoolean(FALSE)

\* Number.parseFloat, on the strings of the payloads (in tenths)
parseFloat(str) ==
    CASE str = "0.7" -> JsNumber(7)
      [] str = "1.5" -> JsNumber(15)
      [] str = "-2" -> JsNumber(-20)
      [] OTHER -> JsNaN

normalizeConfidence(value) ==
    LET numeric == IF value[1] \in {"number", "NaN"} THEN value
                   ELSE IF value[1] = "string" THEN parseFloat(value[2])
                   ELSE JsNaN
    IN  IF numeric = JsNaN THEN JsNumber(0)
        ELSE IF numeric[2] < 0 THEN JsNumber(0)
        ELSE IF numeric[2] > 10 THEN JsNumber(10)
        ELSE numeric

normalizeStringArray(value) ==
    IF value[1] = "array" THEN JsArray(SelectSeq(value[2], IsString))
    ELSE IF value[1] = "string" THEN JsArray(<<value>>)
    ELSE JsArray(<<>>)

\* typeof value === 'string' ? value : fallback
StringOr(value, fallback) == IF value[1] = "string" THEN value ELSE JsString(fallback)

\* typeof value === 'object' && value ? value : {}
ObjectOr(value) == IF typeOf(value) = "object" /\ ~Falsy(value) THEN value ELSE EmptyObject

\* item.feedback_id.trim() is empty
BlankStrings == {"", " "}

repairResponse(response, index) ==
    LET item == ObjectOr(response)
        id == Get(item, "feedback_id")
    IN  JsObject([feedback_id |->
                    IF id[1] = "string" /\ id[2] \notin BlankStrings THEN id
                    ELSE JsString("unknown-" \o ToString(index)),
                  verdict |-> normalizeVerdict(Get(item, "verdict")),
                  reasoning |-> StringOr(Get(item, "reasoning"), ""),
                  action_taken |-> StringOr(Get(item, "action_taken"), "")])

\* JsNull when nothing can be repaired
repairClaudeResponse(output, originalDocument) ==
    LET repaired(parsed) ==
            LET responses == IF IsArray(Get(parsed, "responses"))
                             THEN Get(parsed, "responses")[2] ELSE <<>>
                consensus == ObjectOr(Get(parsed, "consensus_assessment"))
            IN  IF Falsy(parsed) \/ typeOf(parsed) # "object" THEN JsNull
                ELSE JsObject(
                      [responses |->
                          JsArray([i \in DOMAIN responses |->
                                      repairResponse(responses[i], i)]),
                       updated_document |->
                          StringOr(Get(parsed, "updated_document"), originalDocument),
                       consensus_assessment |-> JsObject(
                          [reached |-> normalizeBoolean(Get(consensus, "reached")),
                           outstanding_disagreements |->
                              normalizeStringArray(
                                  Get(consensus, "outstanding_disagreements")),
                           confidence |-> normalizeConfidence(Get(consensus, "confidence")),
                           summary |-> StringOr(Get(consensus, "summary"), "")])])
    IN  CHOOSE value \in {repaired(parsed) : parsed \in {extractJsonValue(output)}} : TRUE

\* ClaudeClient.respond
ClaudeClientRespond(originalDocument, output) ==
    LET afterRepair(parseResult, repaired) ==
            IF Falsy(repaired)
            THEN Fails("Failed to parse Claude response", parseResult.error, 1)
            ELSE IF ~safeParse("ClaudeResponse", repaired)
            THEN Fails("Failed to parse Claude response", parseResult.error, 1)
            ELSE Returns(repaired, 1)
        outcome(parseResult) ==
            IF parseResult.success THEN Returns(parseResult.data, 0)
            ELSE CHOOSE o \in {afterRepair(parseResult, repaired) :
                    repaired \in {repairClaudeResponse(output, originalDocument)}} : TRUE
    IN  CHOOSE o \in {outcome(parseResult) :
                        parseResult \in {parseCliOutput(output, "ClaudeResponse")}} : TRUE

-----------------------------------------------------------------------------
(* The storage adapters on their own: the same calls are made on a          *)
(* MemoryStorageAdapter and on a FileStorageAdapter, whose write is followed *)
(* through its file system calls and can be interrupted between them.       *)

StorePaths == {<<"a">>, <<"a", "b">>, <<"a", "b", "a">>, <<"a", "b", "b">>, <<"b">>}
Contents == {"x", "y"}
Uuids == {"u"}
WritePcs == {"mkdir", "open_temp", "write_temp", "rename"}
VOID == "void"

InitStorage ==
    /\ reviewer = {ReviewA}
    /\ storage = NoFiles
    /\ outputFile = Null
    /\ process = 0
    /\ config = [maxRounds |-> MaxRoundsBound, resumeSessionId |-> FALSE]
    /\ manifest = Null
    /\ orch = NewOrchestrator
    /\ pc = "idle"
    /\ events = <<>>
    /\ result = Null
    /\ exitCode = Null
    /\ invocations = {}
    /\ completeCalls = 0
    /\ failure = Null
    /\ memory = NoFiles
    /\ disk = NewDisk
    /\ written = NoFiles
    /\ call = NoCall

\* What the adapter calls leave alone.
StorageOnly ==
    UNCHANGED <<reviewer, storage, outputFile, process, config, manifest, orch, events,
                result, exitCode, invocations, completeCalls, failure>>

Called(op, sessionPath, data, prior, fromMemory, fromFile) ==
    [op |-> op, path |-> sessionPath, data |-> data, prior |-> prior, temp |-> <<>>,
     memory |-> fromMemory, file |-> fromFile]

StorageRead ==
    /\ pc = "idle"
    /\ \E p \in StorePaths :
        call' = Called("read", p, "", fileRead(disk, p),
                       memoryRead(memory, p), fileRead(disk, p))
    /\ UNCHANGED <<pc, memory, disk, written>>
    /\ StorageOnly

StorageExists ==
    /\ pc = "idle"
    /\ \E p \in StorePaths :
        call' = Called("exists", p, "", fileRead(disk, p),
                       memoryExists(memory, p), fileExists(disk, p))
    /\ UNCHANGED <<pc, memory, disk, written>>
    /\ StorageOnly

StorageList ==
    /\ pc = "idle"
    /\ \E p \in StorePaths :
        call' = Called("list", p, "", fileRead(disk, p),
                       memoryList(memory, p), fileList(disk, p))
    /\ UNCHANGED <<pc, memory, disk, written>>
    /\ StorageOnly

\* write is called on both adapters; the in-memory one is done at once
StorageWrite ==
    /\ pc = "idle"
    /\ \E p \in StorePaths, data \in Contents :
        /\ call' = Called("write", p, data, fileRead(disk, p), Ok(VOID), <<"pending">>)
        /\ memory' = memoryWrite(memory, p, data)
        /\ written' = (p :> data) @@ written
    /\ pc' = "mkdir"
    /\ UNCHANGED disk
    /\ StorageOnly

\* await fs.promises.mkdir(dir, { recursive: true })
WriteMkdir ==
    /\ pc = "mkdir"
    /\ LET made == mkdir(disk, dirname(fullPathOf(call.path)))
       IN  /\ disk' = made.disk
           /\ IF made.error # ""
              THEN call' = [call EXCEPT !.file = Throws(made.error)] /\ pc' = "idle"
              ELSE pc' = "open_temp" /\ UNCHANGED call
    /\ UNCHANGED <<memory, written>>
    /\ StorageOnly

\* writeFile(tempPath, data): the file is opened
WriteOpenTemp ==
    /\ pc = "open_temp"
    /\ \E uuid \in Uuids :
        LET tempPath == tempPathOf(fullPathOf(call.path), uuid)
            opened == openForWrite(disk, tempPath)
        IN  /\ disk' = opened.disk
            /\ IF opened.error # ""
               THEN call' = [call EXCEPT !.file = Throws(opened.error)] /\ pc' = "idle"
               ELSE call' = [call EXCEPT !.temp = tempPath] /\ pc' = "write_temp"
    /\ UNCHANGED <<memory, written>>
    /\ StorageOnly

\* writeFile(tempPath, data): the data is written
WriteTempData ==
    /\ pc = "write_temp"
    /\ disk' = writeData(disk, call.temp, call.data)
    /\ pc' = "rename"
    /\ UNCHANGED <<memory, written, call>>
    /\ StorageOnly

\* await fs.promises.rename(tempPath, fullPath)
WriteRename ==
    /\ pc = "rename"
    /\ LET renamed == rename(disk, call.temp, fullPathOf(call.path))
       IN  /\ disk' = renamed.disk
           /\ call' = [call EXCEPT !.file =
                         IF renamed.error # "" THEN Throws(renamed.error) ELSE Ok(VOID)]
    /\ pc' = "idle"
    /\ UNCHANGED <<memory, written>>
    /\ StorageOnly

\* The process is killed while write is under way.
WriteInterrupted ==
    /\ pc \in WritePcs
    /\ call' = [call EXCEPT !.file = <<"interrupted", pc>>]
    /\ pc' = "interrupted"
    /\ UNCHANGED <<memory, disk, written>>
    /\ StorageOnly

NextStorage ==
    \/ StorageRead
    \/ StorageExists
    \/ StorageList
    \/ StorageWrite
    \/ WriteMkdir
    \/ WriteOpenTemp
    \/ WriteTempData
    \/ WriteRename
    \/ WriteInterrupted

SpecStorage == InitStorage /\ [][NextStorage]_vars

-----------------------------------------------------------------------------
(* extractJsonValue on its own, applied to every text of a few tokens.      *)

MaxTextLen == 4

\* A payload that is an object, and one that is not.
SomeObject == JsObject([wrong |-> JsString("schema")])
ZERO == JsNumber(0)

TextTokens ==
    {SENTINEL_START, SENTINEL_END, FENCE, OPEN_BRACE, CLOSE_BRACE, SPACE, PROSE,
     Literal(ZERO), Literal(SomeObject)}

Texts == UNION {[1..n -> TextTokens] : n \in 0..MaxTextLen}

InitExtract ==
    /\ reviewer = {ReviewA}
    /\ storage = NoFiles
    /\ outputFile = Null
    /\ process = 0
    /\ config = [maxRounds |-> MaxRoundsBound, resumeSessionId |-> FALSE]
    /\ manifest = Null
    /\ orch = NewOrchestrator
    /\ pc = "output"
    /\ events = <<>>
    /\ result = Null
    /\ exitCode = Null
    /\ invocations = {}
    /\ completeCalls = 0
    /\ failure = Null
    /\ memory = NoFiles
    /\ disk = NewDisk
    /\ written = NoFiles
    /\ \E output \in Texts : call = [op |-> "none", output |-> output, value |-> JsUndefined]

ExtractJsonValue ==
    /\ pc = "output"
    /\ call' = [op |-> "extractJsonValue", output |-> call.output,
                value |-> extractJsonValue(call.output)]
    /\ pc' = "returned"
    /\ UNCHANGED <<memory, disk, written>>
    /\ StorageOnly

NextExtract == ExtractJsonValue

SpecExtract == InitExtract /\ [][NextExtract]_vars

-----------------------------------------------------------------------------
(* The three phases of round 1 on their own: each is run once on a fresh    *)
(* session, on an output drawn from the texts a collaborator can print.     *)

ORIGINAL_DOCUMENT == "original"

SomeIssue ==
    JsObject([id |-> JsString("issue-1"), severity |-> JsString("major"),
              section |-> JsString("Intro"), description |-> JsString("Test")])

ValidReview ==
    JsObject([issues |-> JsArray(<<SomeIssue>>), opportunities |-> JsArray(<<>>),
              overall_assessment |-> JsString("Needs work")])

ReviewPayloads ==
    {ValidReview, SomeObject, ZERO, JsBoolean(FALSE), JsString("fine"),
     JsObject([issues |-> JsString("none"), opportunities |-> JsArray(<<>>),
               overall_assessment |-> JsString("Good")])}

SomeResolution ==
    JsObject([original_feedback_id |-> JsString("issue-1"),
              resolution_status |-> JsString("resolved"), comment |-> JsString("ok")])

ValidConsensus ==
    JsObject([verdict |-> JsString("approve"), feedback_responses |-> JsArray(<<SomeResolution>>),
              new_issues |-> JsArray(<<>>), summary |-> JsString("Done")])

ConsensusPayloads ==
    {ValidConsensus, SomeObject, ZERO, JsBoolean(FALSE), JsString("fine"),
     JsObject([verdict |-> JsString("maybe"), feedback_responses |-> JsArray(<<>>),
               new_issues |-> JsArray(<<>>), summary |-> JsString("Done")])}

\* An object with the listed properties, less those that are undefined.
ObjectOf(fields) ==
    JsObject([n \in {m \in DOMAIN fields : fields[m] # JsUndefined} |-> fields[n]])

FeedbackResponses ==
    {ObjectOf([feedback_id |-> JsString("issue-1"), verdict |-> verdict,
               reasoning |-> JsString("Good point"), action_taken |-> action]) :
        verdict \in {JsString("agree"), JsString("maybe"), JsUndefined},
        action \in {JsString("Fixed"), JsUndefined}}

ResponsesValues ==
    {JsUndefined, JsString("none")} \cup {JsArray(<<item>>) : item \in FeedbackResponses}

ConsensusAssessments ==
    {JsUndefined} \cup
    {ObjectOf([reached |-> reached, outstanding_disagreements |-> outstanding,
               confidence |-> confidence, summary |-> JsString("Test")]) :
        reached \in {JsBoolean(TRUE), JsBoolean(FALSE), JsString("true"), JsString("yes"),
                     JsUndefined},
        outstanding \in {JsArray(<<JsString("scope")>>), JsString("scope"), JsUndefined},
        confidence \in {JsNumber(5), JsNumber(15), JsNumber(-20), JsString("0.7"),
                        JsString("high"), JsUndefined}}

ResponsePayloads ==
    {ZERO, JsString("fine")} \cup
    {ObjectOf([responses |-> responses, updated_document |-> document,
               consensus_assessment |-> assessment]) :
        responses \in ResponsesValues,
        document \in {JsString("updated"), JsUndefined},
        assessment \in ConsensusAssessments}

\* The texts that carry a payload, and some that carry none.
OutputsWith(payloads) ==
    UNION {{<<Literal(payload)>>,
            <<PROSE, SENTINEL_START, Literal(payload), SENTINEL_END>>,
            <<PROSE, FENCE, Literal(payload), FENCE>>,
            <<PROSE, Literal(payload), PROSE>>} : payload \in payloads}
    \cup {<<>>, <<PROSE>>, <<SENTINEL_START, PROSE, SENTINEL_END>>, <<OPEN_BRACE, PROSE>>}

InitClients ==
    /\ reviewer = {ReviewA}
    /\ storage = NoFiles
    /\ outputFile = Null
    /\ process = 0
    /\ config = [maxRounds |-> MaxRoundsBound, resumeSessionId |-> FALSE]
    /\ manifest = Null
    /\ orch = [NewOrchestrator EXCEPT !.currentRound = 1,
                                      !.currentDocument = ORIGINAL_DOCUMENT]
    /\ pc = "idle"
    /\ events = <<>>
    /\ result = Null
    /\ exitCode = Null
    /\ invocations = {}
    /\ completeCalls = 0
    /\ failure = Null
    /\ memory = NoFiles
    /\ disk = NewDisk
    /\ written = NoFiles
    /\ call = NoCall

ClientCall(op, output, outcome) ==
    [op |-> op, output |-> output, returned |-> outcome.returned,
     repairs |-> outcome.repairs]

ClientsOnly ==
    UNCHANGED <<reviewer, outputFile, process, config, manifest, events, result, exitCode,
                invocations, completeCalls, failure, memory, disk, written>>

\* Orchestrator.runCodexReview: the review is saved once the client returned
RunCodexReview ==
    /\ pc = "idle"
    /\ \E output \in OutputsWith(ReviewPayloads) :
        \E outcome \in {CodexClientReview(output)} :
            /\ call' = ClientCall("review", output, outcome)
            /\ IF outcome.returned[1] = "ok"
               THEN /\ storage' = write(storage, CodexReviewPath(orch.currentRound),
                                        outcome.returned[2])
                    /\ pc' = "returned"
               ELSE /\ pc' = "failed"
                    /\ UNCHANGED storage
    /\ UNCHANGED orch
    /\ ClientsOnly

\* Orchestrator.runClaudeResponse, and the adoption of the updated document
RunClaudeResponse ==
    /\ pc = "idle"
    /\ \E output \in OutputsWith(ResponsePayloads) :
        \E outcome \in {ClaudeClientRespond(orch.currentDocument, output)} :
            /\ call' = ClientCall("respond", output, outcome)
            /\ IF outcome.returned[1] = "ok"
               THEN /\ storage' = write(storage, ClaudeResponsePath(orch.currentRound),
                                        outcome.returned[2])
                    /\ orch' = [orch EXCEPT !.currentDocument =
                                  Get(outcome.returned[2], "updated_document")[2]]
                    /\ pc' = "returned"
               ELSE /\ pc' = "failed"
                    /\ UNCHANGED <<storage, orch>>
    /\ ClientsOnly

\* Orchestrator.runConsensusCheck
RunConsensusCheck ==
    /\ pc = "idle"
    /\ \E output \in OutputsWith(ConsensusPayloads) :
        \E outcome \in {CodexClientCheckConsensus(output)} :
            /\ call' = ClientCall("checkConsensus", output, outcome)
            /\ IF outcome.returned[1] = "ok"
               THEN /\ storage' = write(storage, ConsensusPath(orch.currentRound),
                                        outcome.returned[2])
                    /\ pc' = "returned"
               ELSE /\ pc' = "failed"
                    /\ UNCHANGED storage
    /\ UNCHANGED orch
    /\ ClientsOnly

NextClients ==
    \/ RunCodexReview
    \/ RunClaudeResponse
    \/ RunConsensusCheck

SpecClients == InitClients /\ [][NextClients]_vars

-----------------------------------------------------------------------------
(* The statistics of a session on their own: a SessionManager is given the  *)
(* artifacts of its rounds in the order the orchestrator saves them, then   *)
(* complete() is called, and a second SessionManager loads the session.     *)

\* A review with a critical and a major issue.
ReviewTwo ==
    [issues |-> <<Issue(ISSUE_1, "critical", <<97>>), Issue(ISSUE_2, "major", <<98>>)>>,
     opportunities |-> <<>>,
     overall_assessment |-> "two issues"]

ResolutionStatuses == {"resolved", "inadequate", "validly_disputed"}

\* Consensus checks on the two issues, with at most one new issue.
ConsensusesOnTwo ==
    {CodexConsensus("reject",
                    <<FeedbackResolution(ISSUE_1, first),
                      FeedbackResolution(ISSUE_2, second)>>, newIssues) :
        first \in ResolutionStatuses, second \in ResolutionStatuses,
        newIssues \in {<<>>, <<Issue(ISSUE_2, "critical", <<99>>)>>,
                       <<Issue(ISSUE_2, "major", <<99>>)>>}}

InitStatistics ==
    /\ reviewer = {ReviewA, ReviewTwo}
    /\ storage = write(NoFiles, MANIFEST_PATH, createInitialManifest(MaxRoundsBound))
    /\ outputFile = Null
    /\ process = 0
    /\ config = [maxRounds |-> MaxRoundsBound, resumeSessionId |-> FALSE]
    /\ manifest = createInitialManifest(MaxRoundsBound)
    /\ orch = NewOrchestrator
    /\ pc = "session"
    /\ events = <<>>
    /\ result = Null
    /\ exitCode = Null
    /\ invocations = {}
    /\ completeCalls = 0
    /\ failure = Null
    /\ memory = NoFiles
    /\ disk = NewDisk
    /\ written = NoFiles
    /\ call = NoCall

\* session.saveCodexReview(round, review), in the round under way.
RoundSaveCodexReview ==
    /\ pc = "session"
    /\ ~exists(storage, CodexReviewPath(manifest.current_round))
    /\ \E review \in reviewer :
          storage' = write(storage, CodexReviewPath(manifest.current_round), review)
    /\ UNCHANGED <<manifest, orch, pc>>
    /\ SessionOnly

\* session.saveClaudeResponse(round, response), once the review is saved.
RoundSaveClaudeResponse ==
    /\ pc = "session"
    /\ exists(storage, CodexReviewPath(manifest.current_round))
    /\ ~exists(storage, ClaudeResponsePath(manifest.current_round))
    /\ \E response \in Responses :
          storage' = write(storage, ClaudeResponsePath(manifest.current_round), response)
    /\ UNCHANGED <<manifest, orch, pc>>
    /\ SessionOnly

\* session.saveConsensusCheck(round, consensus), once a response that claims
\* consensus is saved.
RoundSaveConsensusCheck ==
    /\ pc = "session"
    /\ exists(storage, ClaudeResponsePath(manifest.current_round))
    /\ consensusClaimed(storage[ClaudeResponsePath(manifest.current_round)])
    /\ ~exists(storage, ConsensusPath(manifest.current_round))
    /\ \E consensus \in ConsensusesOnTwo :
          storage' = write(storage, ConsensusPath(manifest.current_round), consensus)
    /\ UNCHANGED <<manifest, orch, pc>>
    /\ SessionOnly

\* session.startRound(round + 1), once the response of the round is saved.
RoundStartNext ==
    /\ pc = "session"
    /\ manifest.current_round < MaxRoundsBound
    /\ exists(storage, ClaudeResponsePath(manifest.current_round))
    /\ manifest' = startRound(manifest, manifest.current_round + 1)
    /\ saveManifest(manifest')
    /\ UNCHANGED <<orch, pc>>
    /\ SessionOnly

\* session.complete(status)
RoundsComplete ==
    /\ pc = "session"
    /\ manifest' = complete(manifest, determineMaxRoundsStatus(manifest.statistics),
                            storage, Timestamp(process))
    /\ saveManifest(manifest')
    /\ pc' = "completed"
    /\ UNCHANGED orch
    /\ SessionOnly

\* A second SessionManager on the same store: loadExisting().
RoundsLoadExisting ==
    /\ pc = "completed"
    /\ manifest' = loadExisting(storage)
    /\ pc' = "loaded"
    /\ UNCHANGED <<storage, orch>>
    /\ SessionOnly

NextStatistics ==
    \/ RoundSaveCodexReview
    \/ RoundSaveClaudeResponse
    \/ RoundSaveConsensusCheck
    \/ RoundStartNext
    \/ RoundsComplete
    \/ RoundsLoadExisting

SpecStatistics == InitStatistics /\ [][NextStatistics]_vars

-----------------------------------------------------------------------------
(* BaseClient.execStreaming under withRetry.  Time passes in ticks; an      *)
(* error message is the sequence of its words.                              *)

\* options.timeoutMs, in ticks.
TimeoutTicks == 2

\* How long one attempt is followed, in ticks.
MaxElapsed == 2 * TimeoutTicks + 1

\* maxAttempts: 3
MAX_ATTEMPTS == 3

lowerCaseWord(word) ==
    CASE word = "Command" -> "command"
      [] word = "ECONNRESET" -> "econnreset"
      [] word = "ENOENT" -> "enoent"
      [] word = "Too Many Requests" -> "too many requests"
      [] OTHER -> word

\* error.message.toLowerCase()
messageToLowerCase(message) == [i \in DOMAIN message |-> lowerCaseWord(message[i])]

\* message.includes(part)
includes(message, part) == \E i \in DOMAIN message : message[i] = part

isTransientError(error) ==
    LET message == messageToLowerCase(error)
    IN  \/ includes(message, "timeout") \/ includes(message, "timed out")
        \/ includes(message, "econnrefused") \/ includes(message, "econnreset")
        \/ includes(message, "network") \/ includes(message, "socket")
        \/ includes(message, "rate limit") \/ includes(message, "429")
        \/ includes(message, "too many requests")
        \/ includes(message, "503") \/ includes(message, "service unavailable")
        \/ includes(message, "502") \/ includes(message, "bad gateway")

\* A faulty give-up test of withRetry: the error is not looked at.
giveUpAtLastAttempt(error, attempt) == attempt = MAX_ATTEMPTS

\* if (!isRetryable(lastError) || attempt === opts.maxAttempts) throw lastError
giveUp(error, attempt) == ~isTransientError(error) \/ attempt = MAX_ATTEMPTS

\* A faulty resetTimeout: the timer that runs is left running.
keepTimeout(timer) == timer

\* resetTimeout: the timer is cleared and set anew; a timer is the number of
\* ticks since it was set.
resetTimeout(timer) == 0

\* `Command timed out after ${timeoutMs} milliseconds: ${command} ...`
TimedOutError == <<"Command", "timed out", "after", "milliseconds">>

\* `Command failed with exit code ${code}: ${stderr || stdout}`
ExitCodeError(text) == <<"Command", "failed", "with", "exit", "code">> \o text

\* What a failing command may have printed.
FailureTexts == {<<"invalid", "arguments">>, <<"Too Many Requests">>}

\* Errors of the subprocess itself ('error' event).
SpawnErrors == {<<"spawn", "ENOENT">>, <<"read", "ECONNRESET">>}

\* withRetry(operation, isTransientError, ...) is called.
NewRetry ==
    [op |-> "execStreaming",
     attempt |-> 1,         \* the loop variable of withRetry
     operations |-> 0,      \* how often operation() was called (history)
     timer |-> 0,           \* ticks since the inactivity timer was set
     silent |-> 0,          \* ticks since the last chunk or the spawn (history)
     elapsed |-> 0,         \* ticks since the spawn (history)
     kills |-> 0,           \* how often a subprocess was killed (history)
     errors |-> <<>>]       \* the errors caught so far, lastError last

InitStreaming ==
    /\ reviewer = {ReviewA}
    /\ storage = NoFiles
    /\ outputFile = Null
    /\ process = 0
    /\ config = [maxRounds |-> 1, resumeSessionId |-> FALSE]
    /\ manifest = createInitialManifest(1)
    /\ orch = NewOrchestrator
    /\ pc = "attempt"
    /\ events = <<>>
    /\ result = Null
    /\ exitCode = Null
    /\ invocations = {}
    /\ completeCalls = 0
    /\ failure = Null
    /\ memory = NoFiles
    /\ disk = NewDisk
    /\ written = NoFiles
    /\ call = NewRetry

StreamingOnly ==
    UNCHANGED <<reviewer, storage, outputFile, process, config, manifest, orch, events,
                result, exitCode, invocations, completeCalls, failure, memory, disk,
                written>>

\* The loop of withRetry calls operation(): the subprocess is spawned and
\* resetTimeout() sets the timer.  Past the loop: throw new RetryError.
StreamOperation ==
    /\ pc = "attempt"
    /\ IF call.attempt <= MAX_ATTEMPTS
       THEN /\ call' = [call EXCEPT !.operations = @ + 1,
                                     !.timer = resetTimeout(@),
                                     !.silent = 0,
                                     !.elapsed = 0]
            /\ pc' = "running"
       ELSE /\ pc' = "raised"
            /\ call' = call
    /\ StreamingOnly

\* A tick passes, which the timer does not outlast.
StreamTick ==
    /\ pc = "running"
    /\ call.timer < TimeoutTicks
    /\ call.elapsed < MaxElapsed
    /\ call' = [call EXCEPT !.timer = @ + 1,
                            !.silent = IF @ < TimeoutTicks THEN @ + 1 ELSE @,
                            !.elapsed = @ + 1]
    /\ pc' = pc
    /\ StreamingOnly

\* subprocess.stdout.on('data') and subprocess.stderr.on('data')
StreamData ==
    /\ pc = "running"
    /\ call.timer < TimeoutTicks
    /\ \E source \in {"stdout", "stderr"} :
          call' = [call EXCEPT !.timer = resetTimeout(@), !.silent = 0]
    /\ pc' = pc
    /\ StreamingOnly

\* The timer fires: subprocess.kill('SIGTERM') and reject(new Error(...)).
StreamTimeout ==
    /\ pc = "running"
    /\ call.timer = TimeoutTicks
    /\ call' = [call EXCEPT !.kills = @ + 1, !.errors = Append(@, TimedOutError)]
    /\ pc' = "caught"
    /\ StreamingOnly

\* subprocess.on('close'): resolve(stdout) on code 0, else reject.
StreamClose ==
    /\ pc = "running"
    /\ call.timer < TimeoutTicks
    /\ \/ /\ pc' = "returned"
          /\ call' = call
       \/ /\ \E text \in FailureTexts :
                call' = [call EXCEPT !.errors = Append(@, ExitCodeError(text))]
          /\ pc' = "caught"
    /\ StreamingOnly

\* subprocess.on('error'): reject(err).
StreamError ==
    /\ pc = "running"
    /\ call.timer < TimeoutTicks
    /\ \E err \in SpawnErrors : call' = [call EXCEPT !.errors = Append(@, err)]
    /\ pc' = "caught"
    /\ StreamingOnly

\* The catch block of withRetry: throw lastError, or sleep(delay) and the
\* next turn of the loop.
StreamCatch ==
    /\ pc = "caught"
    /\ IF giveUp(call.errors[Len(call.errors)], call.attempt)
       THEN /\ pc' = "raised"
            /\ call' = call
       ELSE /\ pc' = "attempt"
            /\ call' = [call EXCEPT !.attempt = @ + 1]
    /\ StreamingOnly

NextStreaming ==
    \/ StreamOperation
    \/ StreamTick
    \/ StreamData
    \/ StreamTimeout
    \/ StreamClose
    \/ StreamError
    \/ StreamCatch

SpecStreaming == InitStreaming /\ [][NextStreaming]_vars

-----------------------------------------------------------------------------
(* hashFeedback on a review and on a changed copy of it *)

\* Most issues and opportunities a review of this part has, together.
MaxItems == 2

\* Ids and descriptions of this part.  "issue-1" with "Aa" and "issue-1A" with
\* "a" are two splits of the same characters; "Aa" and "BB" are descriptions
\* of one length; A_RING and A_COMBINING_RING are canonically equivalent.
FingerprintIds == {ISSUE_1, ISSUE_1 \o <<65>>}
FingerprintDescriptions ==
    {<<97>>, <<65, 97>>, <<66, 66>>, A_RING, A_COMBINING_RING}

FingerprintItems ==
    {[id |-> id, description |-> description] :
        id \in FingerprintIds, description \in FingerprintDescriptions}

Severities == {"critical", "major", "minor"}

\* The review with the first k of the items as issues and the others as
\* opportunities.
ReviewOf(items, k) ==
    [issues |->
        [i \in 1..k |-> Issue(items[i].id, "major", items[i].description)],
     opportunities |->
        [i \in 1..(Len(items) - k) |->
            Opportunity(items[k + i].id, "high", items[k + i].description)],
     overall_assessment |-> "needs work"]

FingerprintReviews ==
    UNION {{ReviewOf(items, k) : k \in 0..Len(items)} :
            items \in UNION {[1..n -> FingerprintItems] : n \in 0..MaxItems}}

\* A sequence with the elements at i and j exchanged.
Swap(seq, i, j) ==
    [k \in DOMAIN seq |-> IF k = i THEN seq[j] ELSE IF k = j THEN seq[i] ELSE seq[k]]

\* A sequence without its element at i.
Without(seq, i) == SubSeq(seq, 1, i - 1) \o SubSeq(seq, i + 1, Len(seq))

\* What is known of the two reviews: the second one and how it was made from
\* the first are set once, with the fingerprints hashFeedback gives the two.
NewComparison(review) ==
    [first |-> review, second |-> Null, change |-> "none", fingerprints |-> Null]

Compared(first, second, change) ==
    [first |-> first, second |-> Some(second), change |-> change,
     fingerprints |-> Some(<<hashFeedback(first), hashFeedback(second)>>)]

InitFingerprint ==
    /\ reviewer = {ReviewA}
    /\ storage = NoFiles
    /\ outputFile = Null
    /\ process = 0
    /\ config = [maxRounds |-> 1, resumeSessionId |-> FALSE]
    /\ manifest = createInitialManifest(1)
    /\ orch = NewOrchestrator
    /\ pc = "drawn"
    /\ events = <<>>
    /\ result = Null
    /\ exitCode = Null
    /\ invocations = {}
    /\ completeCalls = 0
    /\ failure = Null
    /\ memory = NoFiles
    /\ disk = NewDisk
    /\ written = NoFiles
    /\ \E review \in FingerprintReviews : call = NewComparison(review)

FingerprintOnly ==
    UNCHANGED <<reviewer, storage, outputFile, process, config, manifest, orch, events,
                result, exitCode, invocations, completeCalls, failure, memory, disk,
                written>>

\* The second review has the issues or the opportunities of the first in
\* another order.
FingerprintReorder ==
    /\ pc = "drawn"
    /\ \E list \in {"issues", "opportunities"} :
       \E i, j \in DOMAIN call.first[list] :
          /\ i < j
          /\ call' = Compared(call.first,
                              [call.first EXCEPT ![list] = Swap(@, i, j)],
                              "reorder")
    /\ pc' = "compared"
    /\ FingerprintOnly

\* The second review has another description in one place.
FingerprintDescribe ==
    /\ pc = "drawn"
    /\ \E list \in {"issues", "opportunities"} :
       \E i \in DOMAIN call.first[list] :
       \E description \in FingerprintDescriptions :
          /\ description # call.first[list][i].description
          /\ call' = Compared(call.first,
                              [call.first EXCEPT ![list][i].description = description],
                              "describe")
    /\ pc' = "compared"
    /\ FingerprintOnly

\* The second review has one of the issues of the first as an opportunity.
FingerprintMove ==
    /\ pc = "drawn"
    /\ \E i \in DOMAIN call.first.issues :
          LET issue == call.first.issues[i]
          IN  call' = Compared(call.first,
                    [call.first EXCEPT
                        !.issues = Without(@, i),
                        !.opportunities =
                            Append(@, Opportunity(issue.id, "high", issue.description))],
                    "move")
    /\ pc' = "compared"
    /\ FingerprintOnly

\* The second review has the characters of one id and description split in
\* another way between the two.
FingerprintSplit ==
    /\ pc = "drawn"
    /\ \E list \in {"issues", "opportunities"} :
       \E i \in DOMAIN call.first[list] :
       \E item \in FingerprintItems :
          /\ item.id # call.first[list][i].id
          /\ FeedbackKey(item) = FeedbackKey(call.first[list][i])
          /\ call' = Compared(call.first,
                              [call.first EXCEPT ![list][i].id = item.id,
                                                 ![list][i].description = item.description],
                              "split")
    /\ pc' = "compared"
    /\ FingerprintOnly

\* The second review has another severity for one issue, or another overall
\* assessment.
FingerprintRegrade ==
    /\ pc = "drawn"
    /\ \/ \E i \in DOMAIN call.first.issues :
          \E severity \in Severities \ {call.first.issues[i].severity} :
             call' = Compared(call.first,
                              [call.first EXCEPT !.issues[i].severity = severity],
                              "regrade")
       \/ call' = Compared(call.first,
                           [call.first EXCEPT !.overall_assessment = "better"],
                           "regrade")
    /\ pc' = "compared"
    /\ FingerprintOnly

NextFingerprint ==
    \/ FingerprintReorder
    \/ FingerprintDescribe
    \/ FingerprintMove
    \/ FingerprintSplit
    \/ FingerprintRegrade

SpecFingerprint == InitFingerprint /\ [][NextFingerprint]_vars

-----------------------------------------------------------------------------
(* ClaudeClient.runClaude in streaming mode: handleLine under execStreaming  *)
(* and withRetry.  A text is the sequence of the attempts whose subprocess   *)
(* printed its parts.                                                        *)

\* Most lines one subprocess delivers before it closes.
MaxLines == 2

Attempts == 1..MAX_ATTEMPTS

\* The lines a subprocess may print, by the kind of event they hold, and what
\* parseStreamLine makes of them (events without usage tokens).
StreamLines == {"text_delta", "message", "system"}

parseStreamLine(line, text) ==
    CASE line = "text_delta" -> Some([type |-> "delta", text |-> text])
      [] line = "message" -> Some([type |-> "result", text |-> text])
      [] OTHER -> Null

\* handleLine(line), for a line printed by the subprocess of an attempt.
handleLine(c, line, attempt) ==
    LET parsed == parseStreamLine(line, <<attempt>>)
    IN  IF parsed = Null THEN c
        ELSE IF parsed[1].type = "delta"
        THEN [c EXCEPT !.accumulatedText = @ \o parsed[1].text,
                       !.tokenCount = @ + 1]
        ELSE [c EXCEPT !.finalResult = Some(parsed[1].text)]

\* onData(line) of an attempt: the line is counted to that attempt's stdout
\* and given to handleLine.
onData(c, line, attempt) ==
    handleLine([c EXCEPT !.delivered[attempt] = Append(@, line)], line, attempt)

\* if (finalResult) return finalResult; if (accumulatedText) return
\* accumulatedText; return stdout
returnedText(c, stdout) ==
    IF c.finalResult # Null THEN c.finalResult[1]
    ELSE IF c.accumulatedText # <<>> THEN c.accumulatedText
    ELSE stdout

\* runClaude(prompt, onProgress) is called.
NewRunClaude ==
    [op |-> "runClaude",
     attempt |-> 1,                 \* the loop variable of withRetry
     spawned |-> {},                \* attempts whose subprocess has not closed
     delivered |-> [a \in Attempts |-> <<>>],  \* the lines of each subprocess
     accumulatedText |-> <<>>,
     tokenCount |-> 0,
     finalResult |-> Null,
     errors |-> <<>>,               \* the errors caught so far
     returned |-> Null]             \* what runClaude returned

InitRunClaude ==
    /\ reviewer = {ReviewA}
    /\ storage = NoFiles
    /\ outputFile = Null
    /\ process = 0
    /\ config = [maxRounds |-> 1, resumeSessionId |-> FALSE]
    /\ manifest = createInitialManifest(1)
    /\ orch = NewOrchestrator
    /\ pc = "attempt"
    /\ events = <<>>
    /\ result = Null
    /\ exitCode = Null
    /\ invocations = {}
    /\ completeCalls = 0
    /\ failure = Null
    /\ memory = NoFiles
    /\ disk = NewDisk
    /\ written = NoFiles
    /\ call = NewRunClaude

\* reject(error) of the attempt under way, and the catch block of withRetry:
\* throw lastError, or sleep(delay) and the next turn of the loop.
Rejected(c, error) ==
    IF giveUp(error, c.attempt)
    THEN [call |-> [c EXCEPT !.errors = Append(@, error)], pc |-> "raised"]
    ELSE [call |-> [c EXCEPT !.errors = Append(@, error), !.attempt = @ + 1],
          pc |-> "attempt"]

\* The loop of withRetry calls operation(): a subprocess is spawned.
ClaudeOperation ==
    /\ pc = "attempt"
    /\ call.attempt <= MAX_ATTEMPTS
    /\ call' = [call EXCEPT !.spawned = @ \cup {call.attempt}]
    /\ pc' = "running"
    /\ StreamingOnly

\* subprocess.stdout.on('data') with a complete line, for any subprocess that
\* has not closed: that of the attempt under way, or one that was killed on
\* a timeout and still prints.
ClaudeLine ==
    /\ pc \in {"attempt", "running"}
    /\ \E attempt \in call.spawned :
       \E line \in StreamLines :
          /\ Len(call.delivered[attempt]) < MaxLines
          /\ call' = onData(call, line, attempt)
    /\ pc' = pc
    /\ StreamingOnly

\* The inactivity timer of the attempt under way fires:
\* subprocess.kill('SIGTERM') and reject; the subprocess has yet to close.
ClaudeTimeout ==
    /\ pc = "running"
    /\ LET next == Rejected(call, TimedOutError)
       IN  call' = next.call /\ pc' = next.pc
    /\ StreamingOnly

\* subprocess.on('close'): what is left in the line buffer is given to
\* onData; then resolve(stdout) on code 0, else reject.  For a subprocess
\* whose promise was rejected by the timer, resolve and reject do nothing.
ClaudeClose ==
    /\ pc \in {"attempt", "running"}
    /\ \E attempt \in call.spawned :
       \E flushed \in {call} \cup
                {onData(call, line, attempt) :
                    line \in IF Len(call.delivered[attempt]) < MaxLines
                             THEN StreamLines ELSE {}} :
       \E closed \in {[flushed EXCEPT !.spawned = @ \ {attempt}]} :
          IF pc = "running" /\ attempt = call.attempt
          THEN \/ /\ call' = [closed EXCEPT !.returned =
                            Some(returnedText(closed,
                                    [i \in DOMAIN closed.delivered[attempt] |-> attempt]))]
                  /\ pc' = "returned"
               \/ \E text \in FailureTexts :
                     LET next == Rejected(closed, ExitCodeError(text))
                     IN  call' = next.call /\ pc' = next.pc
          ELSE /\ call' = closed
               /\ pc' = pc
    /\ StreamingOnly

NextRunClaude ==
    \/ ClaudeOperation
    \/ ClaudeLine
    \/ ClaudeTimeout
    \/ ClaudeClose

SpecRunClaude == InitRunClaude /\ [][NextRunClaude]_vars

-----------------------------------------------------------------------------
(* Claims *)

\* The persisted manifest.
Persisted == storage[MANIFEST_PATH]

\* C1: for a manifest at round N, the resume point is (N + 1, pending) if the
\* document of round N is stored; else (N, consensus_check) if its response
\* is; else (N, claude_response) if its review is; else (N, codex_review) --
\* whichever of the three artifacts are present.
ResumePointAsSpecified ==
    pc = "asked" =>
        LET N == manifest.current_round
            point == <<orch.currentRound, orch.currentPhase>>
        IN  /\ exists(storage, DocumentPath(N)) => point = <<N + 1, "pending">>
            /\ /\ ~exists(storage, DocumentPath(N))
               /\ exists(storage, ClaudeResponsePath(N))
               => point = <<N, "consensus_check">>
            /\ /\ ~exists(storage, DocumentPath(N))
               /\ ~exists(storage, ClaudeResponsePath(N))
               /\ exists(storage, CodexReviewPath(N))
               => point = <<N, "claude_response">>
            /\ /\ ~exists(storage, DocumentPath(N))
               /\ ~exists(storage, ClaudeResponsePath(N))
               /\ ~exists(storage, CodexReviewPath(N))
               => point = <<N, "codex_review">>

\* C1, a case: at round 2 the document and the response are stored without a
\* review, and the resume point was asked for.
ResumePointAsked ==
    /\ pc = "asked"
    /\ manifest.current_round = 2
    /\ exists(storage, DocumentPath(2))
    /\ exists(storage, ClaudeResponsePath(2))
    /\ ~exists(storage, CodexReviewPath(2))
    /\ orch.currentRound = 3

\* The elements of a sequence.
Range(seq) == {seq[i] : i \in DOMAIN seq}

\* The normalized feedback of a review: the id and description of its issues
\* and of its opportunities, as sets.
NormalizedFeedback(review) ==
    [issues |-> {<<i.id, i.description>> : i \in Range(review.issues)},
     opportunities |->
        {<<o.id, o.description>> : o \in Range(review.opportunities)}]

\* The reviews of rounds n and n + 1 are stored and their normalized feedback
\* is the same.
SameFeedbackTwice(n) ==
    /\ exists(storage, CodexReviewPath(n))
    /\ exists(storage, CodexReviewPath(n + 1))
    /\ NormalizedFeedback(storage[CodexReviewPath(n)]) =
       NormalizedFeedback(storage[CodexReviewPath(n + 1)])

\* C2: when the review of round N + 1 has the same normalized feedback as the
\* review of round N, the authoring collaborator is never invoked for round
\* N + 1, and the run ends at round N + 1 with status max_rounds_reached.
StalemateEndsSession ==
    \A n \in 1..MaxRoundsBound :
        SameFeedbackTwice(n) =>
            /\ [kind |-> "response", round |-> n + 1] \notin invocations
            /\ pc = "done" =>
                /\ result[1].status = "max_rounds_reached"
                /\ result[1].totalRounds = n + 1

\* The status the unresolved counts of statistics grade to.
Graded(stats) ==
    IF stats.critical_unresolved > 0 THEN "max_rounds_reached_unsafe"
    ELSE IF stats.major_unresolved > 0 THEN "max_rounds_reached_warning"
    ELSE "max_rounds_reached"

\* The exit code the claims give for a status.
ExitCodeOf(status) ==
    IF status \in {"completed", "max_rounds_reached"} THEN 0
    ELSE IF status = "max_rounds_reached_warning" THEN 1
    ELSE 2

\* The run has returned, having left the loop because the round limit was
\* passed.
RoundLimitExhausted == pc = "done" /\ orch.currentRound > config.maxRounds

\* C3: a session that ends because the round limit is exhausted gets the
\* status graded from the statistics recomputed from the stored artifacts of
\* rounds 1..max_rounds, and the matching exit code (unsafe 2, warning 1,
\* plain 0).
RoundLimitStatusGraded ==
    RoundLimitExhausted =>
        LET graded == Graded(StatisticsUpTo(storage, Persisted.max_rounds))
        IN  /\ result[1].status = graded
            /\ Persisted.status = graded
            /\ exitCode = Some(ExitCodeOf(graded))

\* The consensus check of the round in progress came back with this verdict.
VerdictNow(verdict) ==
    /\ orch.consensus # Null
    /\ orch.consensus[1].verdict = verdict

\* Positions of terminate() and after.
TerminatePcs ==
    {"approve_timing", "save_final", "write_output", "complete",
     "save_summary", "done"}

\* The run returned after an approval in round N: the session is completed
\* with exit code 0, in round N, and the final document is the response's
\* updated_document, in the result, in final/document.md and in the output
\* file.
ApprovedResult ==
    pc = "done" /\ VerdictNow("approve") =>
        LET N == orch.currentRound
            document == storage[ClaudeResponsePath(N)].updated_document
        IN  /\ storage[ClaudeResponsePath(N)].consensus_assessment.reached
            /\ result = Some([status |-> "completed", exitCode |-> 0,
                              finalDocument |-> document, totalRounds |-> N])
            /\ exitCode = Some(0)
            /\ Persisted.status = "completed"
            /\ storage[FINAL_DOCUMENT_PATH] = document
            /\ outputFile = Some(document)

\* After an approval the process only terminates: no collaborator is invoked
\* and no round is started.
ApprovedStep ==
    VerdictNow("approve") /\ pc \notin EndedPcs =>
        /\ invocations' = invocations
        /\ orch'.currentRound = orch.currentRound \/ pc' = "killed"
        /\ pc' \in TerminatePcs \cup {"failed", "killed"}

\* C4: when the response of round N claims consensus and the consensus check
\* approves, the run terminates in round N with status completed and exit
\* code 0, no collaborator is invoked afterwards, and the final document is
\* that response's updated_document, returned in the result and written to
\* final/document.md and to the configured output file.
ApproveEndsSession == [][ApprovedResult' /\ ApprovedStep]_vars

\* C4, a case: the run returned after an approval in round 2.
ApprovedInRoundTwo ==
    /\ pc = "done"
    /\ VerdictNow("approve")
    /\ orch.currentRound = 2
    /\ result[1].status = "completed"

\* Positions of a round between a reject and the next turn of the loop.
AfterRejectPcs == {"round_timing", "set_complete", "loop"}

\* After a reject the stored status is in_progress.
RejectedState ==
    VerdictNow("reject") /\ pc \in AfterRejectPcs =>
        Persisted.status = "in_progress"

\* A reject ends nothing: the round is finished, and when it is below the
\* manifest's max_rounds the next round is started.
RejectedStep ==
    VerdictNow("reject") /\ pc \in AfterRejectPcs /\ pc' \notin {"failed", "killed"} =>
        /\ pc = "round_timing" => pc' = "set_complete"
        /\ pc = "set_complete" =>
            pc' = "loop" /\ orch'.currentRound = orch.currentRound + 1
        /\ pc = "loop" /\ orch.currentRound <= Persisted.max_rounds =>
            /\ pc' = "phase1"
            /\ orch'.currentPhase = "pending"
            /\ storage'[MANIFEST_PATH].current_round = orch.currentRound
            /\ storage'[MANIFEST_PATH].current_phase = "pending"

\* A round that starts pending begins with an invocation of the critiquing
\* collaborator for a review.
PendingRoundStep ==
    /\ pc = "phase1" /\ orch.currentPhase = "pending" /\ pc' \notin {"failed", "killed"}
        => pc' = "review"
    /\ pc = "review" /\ pc' \notin {"failed", "killed"}
        => [kind |-> "review", round |-> orch.currentRound] \in invocations'

\* C5: a reject verdict of the consensus check in round N does not end the
\* session: the manifest status stays in_progress after it, and when N is
\* below max_rounds, round N + 1 is started and a review is asked for.
RejectContinues == [][RejectedState' /\ RejectedStep /\ PendingRoundStep]_vars

\* A consensus check was asked for, or is stored, only for a round whose
\* stored response claims consensus.
CheckedOnlyWhenClaimed ==
    \A round \in 1..(MaxRoundsBound + 1) :
        \/ [kind |-> "consensus", round |-> round] \in invocations
        \/ exists(storage, ConsensusPath(round))
        => /\ exists(storage, ClaudeResponsePath(round))
           /\ storage[ClaudeResponsePath(round)].consensus_assessment.reached

\* When the response does not claim consensus, phase 3 asks for no check and
\* the round goes on to its end and to the next round.
UnclaimedStep ==
    /\ orch.claudeResponse # Null
    /\ ~orch.claudeResponse[1].consensus_assessment.reached
    /\ pc \in {"phase3", "round_timing", "set_complete"}
    /\ pc' \notin {"failed", "killed"}
    => /\ invocations' = invocations
       /\ ~exists(storage', ConsensusPath(orch.currentRound))
       /\ pc = "phase3" => pc' = "round_timing"
       /\ pc = "round_timing" => pc' = "set_complete"
       /\ pc = "set_complete" =>
            pc' = "loop" /\ orch'.currentRound = orch.currentRound + 1

\* C6: the consensus check of round N is invoked only if the response of
\* round N claims consensus; when it does not, no consensus check is invoked
\* or stored for round N and the round continues to round N + 1.
CheckOnlyWhenClaimed == [][CheckedOnlyWhenClaimed' /\ UnclaimedStep]_vars

\* C6, a case: round 1 ended without a claim of consensus and without a
\* check, and round 2 has begun.
SecondRoundWithoutCheck ==
    /\ pc = "phase1"
    /\ orch.currentRound = 2
    /\ exists(storage, ClaudeResponsePath(1))
    /\ ~storage[ClaudeResponsePath(1)].consensus_assessment.reached
    /\ ~exists(storage, ConsensusPath(1))
    /\ [kind |-> "consensus", round |-> 1] \notin invocations

\* The stored manifest has a status other than in_progress.
TerminalStored ==
    exists(storage, MANIFEST_PATH) /\ Persisted.status # "in_progress"

\* C7: the status of a session is terminal once set: once the stored status
\* is not in_progress, nothing changes status or completed_at, resuming the
\* session included, and complete is called at most once in a session.
StatusIsTerminal ==
    [][/\ TerminalStored =>
            /\ storage'[MANIFEST_PATH].status = Persisted.status
            /\ storage'[MANIFEST_PATH].completed_at = Persisted.completed_at
       /\ completeCalls' <= 1]_vars

\* C8: the manifest's current_round is at least 1 and at most its max_rounds,
\* in memory and as stored.
RoundWithinLimit ==
    /\ 1 <= manifest.current_round
    /\ manifest.current_round <= manifest.max_rounds
    /\ exists(storage, MANIFEST_PATH) =>
        /\ 1 <= Persisted.current_round
        /\ Persisted.current_round <= Persisted.max_rounds

\* C9: when a failure is raised inside a round, the manifest status is
\* failed, the process exits with 2, and the error event carries the phase
\* and the round of the failure.
FailureRecorded ==
    pc = "failed" /\ failure[1].phase # "none" =>
        LET event == events[Len(events)]
        IN  /\ exitCode = Some(2)
            /\ event.type = "error"
            /\ event.round = failure[1].round
            /\ event.phase = failure[1].phase
            /\ Persisted.status = "failed"

\* C10: the exit code is a function of the final status alone: completed and
\* max_rounds_reached give 0, max_rounds_reached_warning gives 1,
\* max_rounds_reached_unsafe and failed give 2; and the exit_code of
\* final/summary.json and of the complete event is the code the process
\* returns.
ExitCodeFromStatus ==
    /\ pc = "done" =>
        LET event == events[Len(events)]
            code == ExitCodeOf(result[1].status)
        IN  /\ exitCode = Some(code)
            /\ result[1].exitCode = code
            /\ storage[FINAL_SUMMARY_PATH].status = result[1].status
            /\ storage[FINAL_SUMMARY_PATH].exit_code = code
            /\ event.type = "complete"
            /\ event.status = result[1].status
            /\ event.exit_code = code
    /\ pc = "failed" => exitCode = Some(2)

\* C10, a case: the run returned with a warning.
ReturnedWithWarning ==
    /\ pc = "done"
    /\ result[1].status = "max_rounds_reached_warning"
    /\ exitCode = Some(1)

\* A collaborator is asked for a payload only when none is stored for the
\* round.
AskedOnlyWhenMissing ==
    /\ pc = "review" /\ pc' \in {"phase2", "stalemate_timing"}
        => ~exists(storage, CodexReviewPath(orch.currentRound))
    /\ pc = "respond" /\ pc' = "save_document"
        => ~exists(storage, ClaudeResponsePath(orch.currentRound))

\* Past phase 1 the review in hand is the stored one, and past phase 2 the
\* response in hand is the stored one.
StoredPayloadsInHand ==
    /\ pc \in {"phase2", "stalemate_timing", "respond"} =>
        /\ exists(storage, CodexReviewPath(orch.currentRound))
        /\ orch.codexReview = Some(storage[CodexReviewPath(orch.currentRound)])
    /\ pc = "save_document" =>
        /\ exists(storage, ClaudeResponsePath(orch.currentRound))
        /\ orch.claudeResponse =
            Some(storage[ClaudeResponsePath(orch.currentRound)])

\* C11: after an interruption at any point of a round and a resume, finished
\* phase work is not done again: no review is asked for in a round whose
\* review is stored and no response in a round whose response is stored; the
\* stored payloads are loaded instead.
FinishedPhasesNotRedone == [][AskedOnlyWhenMissing /\ StoredPayloadsInHand']_vars

\* C11, a case: a resumed process is past phase 2 of a round with the stored
\* review and response in hand, having asked no collaborator.
ResumedWithStoredResponse ==
    /\ process = 1
    /\ pc = "save_document"
    /\ orch.currentPhase = "consensus_check"
    /\ Len(events) = 2
    /\ orch.claudeResponse = Some(storage[ClaudeResponsePath(orch.currentRound)])

\* How many events of a type the running process has emitted.
Emitted(type) == Cardinality({i \in DOMAIN events : events[i].type = type})

\* C12: a run performs at most max_rounds rounds -- at most max_rounds
\* review invocations, response invocations and consensus checks -- before
\* it reaches the finalization path or a failure.
RunWithinRoundLimit ==
    exists(storage, MANIFEST_PATH) =>
        /\ Emitted("round_start") <= Persisted.max_rounds
        /\ Emitted("codex_review") <= Persisted.max_rounds
        /\ Emitted("claude_response") <= Persisted.max_rounds
        /\ Emitted("consensus") <= Persisted.max_rounds

\* C13: while a file-backed write to a path is under way, and after it was
\* interrupted before its rename, a reader of the path gets what it got
\* before the write; once the write has returned it gets the new content.
WriteIsAtomic ==
    /\ pc \in WritePcs \cup {"interrupted"} => fileRead(disk, call.path) = call.prior
    /\ pc = "idle" /\ call.op = "write" /\ call.file = Ok(VOID)
        => fileRead(disk, call.path) = Ok(<<call.data>>)

InterruptedBeforeRename ==
    /\ pc = "interrupted"
    /\ call.file = <<"interrupted", "rename">>
    /\ call.prior = Ok(<<"x">>)
    /\ call.data = "y"
    /\ disk.files[call.temp] = "y"

WrittenContent(p) == IF p \in DOMAIN written THEN <<written[p]>> ELSE <<>>

\* C14: on both adapters read of a path gives the content last written to
\* it, or null without raising when it was never written, and exists tells
\* whether the path was written.
ReadsWhatWasWritten ==
    pc = "idle" =>
        /\ call.op = "read" =>
            /\ call.memory = Ok(WrittenContent(call.path))
            /\ call.file = Ok(WrittenContent(call.path))
        /\ call.op = "exists" =>
            /\ call.memory = Ok(call.path \in DOMAIN written)
            /\ call.file = Ok(call.path \in DOMAIN written)

NoDuplicates(seq) == \A i, j \in DOMAIN seq : seq[i] = seq[j] => i = j

ChildNames(p) == {q[Len(p) + 1] : q \in {k \in DOMAIN written : IsUnder(k, p)}}

\* C15: the two adapters answer every call alike (list compared as sets),
\* and list gives the names directly under the path, each once.
AdaptersAgree ==
    pc = "idle" =>
        /\ call.op \in {"read", "exists", "write"} => call.memory = call.file
        /\ call.op = "list" =>
            /\ call.memory[1] = "ok" /\ call.file[1] = "ok"
            /\ NoDuplicates(call.memory[2])
            /\ Range(call.memory[2]) = call.file[2]
            /\ call.file[2] = ChildNames(call.path)

\* The four candidates of a text in the order of the specification, Null
\* where a text has none.
Candidates(text) ==
    LET startIdx == IndexOfKind(text, 1, "start")
        endIdx == IndexOfKind(text, 1, "end")
        opening == IndexOfKind(text, 1, "fence")
        closing == IF opening = 0 THEN 0 ELSE IndexOfKind(text, opening + 1, "fence")
        opens == {i \in DOMAIN text : OpensBrace(text[i])}
        firstBrace == FirstIndex(text, 1, opens)
        closes == {i \in DOMAIN text :
                      /\ firstBrace # 0 /\ i >= firstBrace /\ ClosesBrace(text[i])
                      /\ jsonParse(SubSeq(text, firstBrace, i)).ok}
    IN  << IF startIdx # 0 /\ endIdx # 0 /\ startIdx < endIdx
           THEN Some(SubSeq(text, startIdx + 1, endIdx - 1)) ELSE Null,
           Some(trim(text)),
           IF closing # 0 THEN Some(SubSeq(text, opening + 1, closing - 1)) ELSE Null,
           IF closes # {}
           THEN Some(SubSeq(text, firstBrace, CHOOSE i \in closes : \A k \in closes : k <= i))
           ELSE Null >>

ParsingCandidates(text) ==
    {i \in 1..4 : Candidates(text)[i] # Null /\ jsonParse(Candidates(text)[i][1]).ok}

FirstParsed(text) ==
    IF ParsingCandidates(text) = {} THEN JsNull
    ELSE jsonParse(Candidates(text)[CHOOSE i \in ParsingCandidates(text) :
                                        \A k \in ParsingCandidates(text) : i <= k][1]).value

\* C16: extractJsonValue returns the parsed value of the first of the four
\* candidates that parses, and null only when none of them parses.
ExtractsFirstParsingCandidate ==
    pc = "returned" /\ call.op = "extractJsonValue"
        => call.value = FirstParsed(call.output)

\* The payload of an output according to the specification: the value of
\* its first candidate that parses, if there is one.
HasPayload(output) == ParsingCandidates(output) # {}
Payload(output) == FirstParsed(output)

IsList(value) == value[1] = "array"

\* The payload is a valid response but for properties action_taken that
\* are missing.
OnlyActionTakenMissing(payload) ==
    /\ ~ClaudeResponseSchema(payload)
    /\ payload[1] = "object"
    /\ IsList(Get(payload, "responses"))
    /\ ClaudeResponseSchema(
          [payload EXCEPT ![2] = [@ EXCEPT !.responses = JsArray(
              [i \in DOMAIN Get(payload, "responses")[2] |->
                  IF Get(payload, "responses")[2][i][1] = "object"
                     /\ "action_taken" \notin DOMAIN Get(payload, "responses")[2][i][2]
                  THEN JsObject([action_taken |-> JsString("")]
                                  @@ Get(payload, "responses")[2][i][2])
                  ELSE Get(payload, "responses")[2][i]])]])

\* C17: a response is repaired at most once, and only when it did not
\* validate; a payload that only lacks action_taken is returned with the
\* empty string there; a payload whose responses are not a list makes the
\* operation fail.
RepairedOnce ==
    call.op = "respond" =>
        /\ call.repairs <= 1
        /\ call.repairs = 1 <=>
              ~(HasPayload(call.output) /\ ClaudeResponseSchema(Payload(call.output)))
        /\ HasPayload(call.output) /\ OnlyActionTakenMissing(Payload(call.output)) =>
              /\ call.returned[1] = "ok"
              /\ \A i \in DOMAIN Get(call.returned[2], "responses")[2] :
                    "action_taken" \notin DOMAIN Get(Payload(call.output), "responses")[2][i][2]
                        => Get(Get(call.returned[2], "responses")[2][i], "action_taken")
                              = JsString("")
        /\ HasPayload(call.output) /\ ~IsList(Get(Payload(call.output), "responses")) =>
              call.returned[1] = "throws"

\* In tenths: a confidence that is a number, or a string that reads as one.
IsNumeric(value) ==
    value[1] = "number" \/ (value[1] = "string" /\ parseFloat(value[2]) # JsNaN)
NumberOf(value) == IF value[1] = "number" THEN value[2] ELSE parseFloat(value[2])[2]
Clamped(tenths) == IF tenths < 0 THEN 0 ELSE IF tenths > 10 THEN 10 ELSE tenths

RepairedResponse ==
    /\ call.op = "respond"
    /\ call.repairs = 1
    /\ call.returned[1] = "ok"

\* C18: the response returned after a repair has partial for a verdict
\* that was missing or invalid, false for a reached that was missing or
\* not a boolean, no or one outstanding disagreement for a missing one or a
\* bare string, a confidence clamped into [0,1] and 0 when not numeric, and
\* the pre-round document, which is then the adopted one, for a missing
\* updated_document.
RepairDefaults ==
    RepairedResponse =>
        LET payload == Payload(call.output)
            given == Get(payload, "consensus_assessment")
            repaired == call.returned[2]
            assessment == Get(repaired, "consensus_assessment")
        IN  /\ \A i \in DOMAIN Get(repaired, "responses")[2] :
                 LET verdict == Get(Get(payload, "responses")[2][i], "verdict")
                 IN  Get(Get(repaired, "responses")[2][i], "verdict") =
                        IF IsEnum(verdict, {"agree", "disagree", "partial"})
                        THEN verdict ELSE JsString("partial")
            /\ Get(given, "reached")[1] # "boolean"
                  => Get(assessment, "reached") = JsBoolean(FALSE)
            /\ Get(given, "outstanding_disagreements") = JsUndefined
                  => Get(assessment, "outstanding_disagreements") = JsArray(<<>>)
            /\ Get(given, "outstanding_disagreements")[1] = "string"
                  => Get(assessment, "outstanding_disagreements")
                        = JsArray(<<Get(given, "outstanding_disagreements")>>)
            /\ Get(assessment, "confidence") =
                  IF IsNumeric(Get(given, "confidence"))
                  THEN JsNumber(Clamped(NumberOf(Get(given, "confidence"))))
                  ELSE JsNumber(0)
            /\ Get(payload, "updated_document") = JsUndefined
                  => /\ Get(repaired, "updated_document") = JsString(ORIGINAL_DOCUMENT)
                     /\ orch.currentDocument = ORIGINAL_DOCUMENT

JudgmentSchema(op) == IF op = "review" THEN "CodexReview" ELSE "CodexConsensus"
JudgmentPath(op) ==
    IF op = "review" THEN CodexReviewPath(orch.currentRound)
    ELSE ConsensusPath(orch.currentRound)

\* C19: a review or a consensus check whose output holds no payload fails
\* with the error of a failed extraction, one whose payload does not fit the
\* schema fails with the error of a failed validation, and in both cases
\* nothing was repaired and nothing is stored for the phase.
JudgmentFailsAtOnce ==
    call.op \in {"review", "checkConsensus"} =>
        /\ ~HasPayload(call.output)
              => call.returned[1] = "throws" /\ call.returned[2][2] = EXTRACT_FAILED
        /\ HasPayload(call.output)
           /\ ~safeParse(JudgmentSchema(call.op), Payload(call.output))
              => call.returned[1] = "throws" /\ call.returned[2][2] = SCHEMA_FAILED
        /\ call.returned[1] = "throws"
              => call.repairs = 0 /\ ~exists(storage, JudgmentPath(call.op))

\* What a round counts for: its resolutions marked resolved or validly
\* disputed when it has a consensus check, else its feedback items the
\* author agreed with.
ResolvedInRound(store, round) ==
    IF exists(store, ConsensusPath(round))
    THEN Cardinality({i \in DOMAIN store[ConsensusPath(round)].feedback_responses :
            store[ConsensusPath(round)].feedback_responses[i].resolution_status
                \in {"resolved", "validly_disputed"}})
    ELSE IF exists(store, ClaudeResponsePath(round))
    THEN Cardinality({i \in DOMAIN store[ClaudeResponsePath(round)].responses :
            store[ClaudeResponsePath(round)].responses[i].verdict = "agree"})
    ELSE 0

RECURSIVE ResolvedUpTo(_, _)
ResolvedUpTo(store, round) ==
    IF round < 1 THEN 0
    ELSE ResolvedUpTo(store, round - 1) + ResolvedInRound(store, round)

\* C20: the issues_resolved that complete() computes is the sum over the
\* rounds up to current_round of the agreed feedback items of a round
\* without a consensus check and of the resolved or validly disputed
\* resolutions of a round with one.
IssuesResolvedAsSpecified ==
    [][completeCalls' # completeCalls =>
          manifest'.statistics.issues_resolved
              = ResolvedUpTo(storage', manifest'.current_round)]_vars

\* The number of elements of a sequence that are in a set.
HowMany(seq, members) == Cardinality({i \in DOMAIN seq : seq[i] \in members})

\* The issues of a severity in a review.
IssuesOf(review, severity) == {i \in Range(review.issues) : i.severity = severity}

\* What the consensus check of a round leaves unresolved at a severity: its
\* inadequate resolutions of issues the round's review gives that severity,
\* and its new issues of that severity.
UnresolvedInRound(store, round, severity) ==
    IF ~exists(store, ConsensusPath(round)) THEN 0
    ELSE LET review == store[CodexReviewPath(round)]
             consensus == store[ConsensusPath(round)]
             ids == {i.id : i \in IssuesOf(review, severity)}
         IN  HowMany(consensus.feedback_responses,
                     {r \in Range(consensus.feedback_responses) :
                        /\ r.resolution_status = "inadequate"
                        /\ r.original_feedback_id \in ids})
             + HowMany(consensus.new_issues,
                       {i \in Range(consensus.new_issues) : i.severity = severity})

RECURSIVE UnresolvedUpTo(_, _, _)
UnresolvedUpTo(store, round, severity) ==
    IF round < 1 THEN 0
    ELSE UnresolvedUpTo(store, round - 1, severity)
         + UnresolvedInRound(store, round, severity)

\* One round, whose review raised a critical and a major issue and whose
\* consensus check found the critical one inadequate and the major one
\* resolved, with no new issue.
OneInadequateOneResolved ==
    /\ manifest.current_round = 1
    /\ exists(storage, ConsensusPath(1))
    /\ storage[CodexReviewPath(1)] = ReviewTwo
    /\ storage[ConsensusPath(1)] =
         CodexConsensus("reject", <<FeedbackResolution(ISSUE_1, "inadequate"),
                                    FeedbackResolution(ISSUE_2, "resolved")>>, <<>>)

\* C21: critical_unresolved (major_unresolved) is the number of inadequate
\* resolutions of the consensus checks whose id is, in the review of the same
\* round, that of a critical (major) issue, plus the number of critical
\* (major) new issues of the consensus checks; with one critical issue found
\* inadequate and one major issue resolved the statistics are
\* critical_unresolved 1, major_unresolved 0 and issues_resolved 1; and
\* statistics computed again from the same artifacts are the same.
UnresolvedAsSpecified ==
    pc \in {"completed", "loaded"} =>
        LET stats == manifest.statistics
        IN  /\ stats.critical_unresolved =
                    UnresolvedUpTo(storage, manifest.current_round, "critical")
            /\ stats.major_unresolved =
                    UnresolvedUpTo(storage, manifest.current_round, "major")
            /\ OneInadequateOneResolved =>
                    /\ stats.critical_unresolved = 1
                    /\ stats.major_unresolved = 0
                    /\ stats.issues_resolved = 1
            /\ pc = "loaded" => stats = Persisted.statistics

\* C21, a case: the session with one critical issue found inadequate and one
\* major issue resolved was completed and loaded again.
LoadedOneInadequateOneResolved ==
    /\ pc = "loaded"
    /\ OneInadequateOneResolved
    /\ manifest.statistics.critical_unresolved = 1

\* The error withRetry caught last.
LastError == call.errors[Len(call.errors)]

\* Every call of the operation but the one under way has failed; no failure
\* but the last is non-transient; and a success, or three failures, end the
\* call.
RetriedOnlyWhenTransient ==
    /\ call.operations <= MAX_ATTEMPTS
    /\ Len(call.errors) = IF pc \in {"running", "returned"}
                          THEN call.operations - 1 ELSE call.operations
    /\ \A i \in DOMAIN call.errors :
          ~isTransientError(call.errors[i]) =>
              i = Len(call.errors) /\ pc \in {"caught", "raised"}
    /\ Len(call.errors) = MAX_ATTEMPTS => pc \in {"caught", "raised"}

\* A caught failure is raised when it is not transient or was the third, and
\* is followed by another call of the operation otherwise; nothing follows
\* a success.
RetryStep ==
    /\ pc = "caught" =>
          IF ~isTransientError(LastError) \/ call.operations = MAX_ATTEMPTS
          THEN pc' = "raised" /\ call' = call
          ELSE pc' = "attempt" /\ call'.operations = call.operations
    /\ pc = "attempt" => pc' = "running" /\ call'.operations = call.operations + 1
    /\ pc \in {"returned", "raised"} => pc' = pc /\ call' = call

\* C22: withRetry calls the operation at most 3 times; it calls it again
\* only after a failure classified transient; a non-transient failure is
\* raised with no retry (after one call when it is the first failure); the
\* first success is returned with no further call; and when all attempts
\* fail with transient errors the failure is raised to the caller.
RetryAsSpecified == [][RetriedOnlyWhenTransient' /\ RetryStep]_vars

\* C22, a case: three attempts failed with transient errors and the failure
\* was raised.
RaisedAfterThreeTransient ==
    /\ pc = "raised"
    /\ call.operations = MAX_ATTEMPTS
    /\ \A i \in DOMAIN call.errors : isTransientError(call.errors[i])

\* C23: a streaming invocation is bounded by an inactivity timeout: the
\* subprocess is killed only when no chunk came, on stdout or stderr, for the
\* whole timeout, however long it has run; a subprocess silent for the whole
\* timeout is killed, the attempt fails with an error classified transient,
\* and it is retried (while attempts are left).
InactivityTimeout ==
    [][/\ call'.kills # call.kills => call.silent = TimeoutTicks
       /\ pc = "running" /\ call.silent = TimeoutTicks =>
            /\ call'.kills = call.kills + 1
            /\ pc' = "caught"
            /\ isTransientError(call'.errors[Len(call'.errors)])
       /\ pc = "caught" /\ LastError = TimedOutError
                        /\ call.operations < MAX_ATTEMPTS => pc' = "attempt"]_vars

\* C23, a case: the first attempt was killed after a silence, and the second
\* has run for more than twice the timeout without being killed.
LongRunAfterKill ==
    /\ pc = "running"
    /\ call.operations = 2
    /\ call.kills = 1
    /\ call.elapsed > 2 * TimeoutTicks

\* The place of a round's event in the order round_start, codex_review,
\* claude_response, consensus, round_complete; 0 for any other event.
RoundEventRank(type) ==
    CASE type = "round_start" -> 1
      [] type = "codex_review" -> 2
      [] type = "claude_response" -> 3
      [] type = "consensus" -> 4
      [] type = "round_complete" -> 5
      [] OTHER -> 0

\* The events of the rounds, among the events emitted.
RoundEvents == {i \in DOMAIN events : RoundEventRank(events[i].type) > 0}

\* The events emitted so far are in order: a start event is the first, a
\* round's events follow the order of the phases, rounds ascend, and a
\* complete event is the last.
EventsInOrder ==
    /\ \A i \in DOMAIN events : events[i].type = "start" => i = 1
    /\ \A i, j \in RoundEvents :
          i < j =>
            \/ events[i].round < events[j].round
            \/ /\ events[i].round = events[j].round
               /\ RoundEventRank(events[i].type) < RoundEventRank(events[j].type)
    /\ \A i \in DOMAIN events :
          events[i].type = "complete" => i = Len(events) /\ pc = "done"

Rounds == 1..(MaxRoundsBound + 1)

\* C25: in every state, also after an interruption at any point and a
\* resume, the document snapshot of every round below the manifest's
\* current_round is stored: current_round passes N only after the document
\* of round N was written.
DocumentBeforeAdvance ==
    /\ \A N \in Rounds :
          N < manifest.current_round => exists(storage, DocumentPath(N))
    /\ exists(storage, MANIFEST_PATH) =>
          \A N \in Rounds :
            N < Persisted.current_round => exists(storage, DocumentPath(N))

\* C25, a case: a resumed process has started round 2.
ResumedIntoRoundTwo ==
    /\ process = 1
    /\ pc = "phase1"
    /\ Persisted.current_round = 2
    /\ exists(storage, DocumentPath(1))

\* C26: in every state, also after an interruption at any point, a round
\* whose document snapshot is stored has its review and its response stored.
DocumentAfterPayloads ==
    \A N \in Rounds :
        exists(storage, DocumentPath(N)) =>
            /\ exists(storage, CodexReviewPath(N))
            /\ exists(storage, ClaudeResponsePath(N))

\* C26, a case: the process was interrupted with the document of round 2
\* just stored.
KilledAfterSecondDocument ==
    /\ pc = "killed"
    /\ exists(storage, DocumentPath(2))
    /\ ~exists(storage, TimingsPath(2))

\* The step went on in run(): it was not ended by a failure or an
\* interruption.
WentOn == pc' \notin {"failed", "killed"}

\* The payloads and the document of a round are written where none is stored.
PayloadsWrittenOnce ==
    /\ pc = "review" /\ WentOn => ~exists(storage, CodexReviewPath(orch.currentRound))
    /\ pc = "respond" /\ WentOn => ~exists(storage, ClaudeResponsePath(orch.currentRound))
    /\ pc = "consensus" /\ WentOn => ~exists(storage, ConsensusPath(orch.currentRound))
    /\ pc = "save_document" /\ WentOn => ~exists(storage, DocumentPath(orch.currentRound))

\* The timing record of a round is written where none is stored.
TimingsWrittenOnce ==
    pc \in {"stalemate_timing", "approve_timing", "round_timing"} /\ WentOn =>
        ~exists(storage, TimingsPath(orch.currentRound))

\* C27: round artifacts are write-once: over the life of a session, with its
\* interruptions and resumes (a resume of a terminated session too), the
\* review, the response, the consensus check, the document snapshot and the
\* timing record of a round are each written at most once.
ArtifactsWrittenOnce == [][PayloadsWrittenOnce /\ TimingsWrittenOnce]_vars

\* When a collaborator is about to be invoked for a phase of a round, the
\* stored manifest is at that round and phase and the payloads of the
\* earlier phases of the round are stored.
BoundaryStored ==
    pc \in {"review", "respond", "consensus"} =>
        /\ Persisted.current_round = orch.currentRound
        /\ Persisted.current_phase = PhaseOf(pc)
        /\ pc \in {"respond", "consensus"} =>
                exists(storage, CodexReviewPath(orch.currentRound))
        /\ pc = "consensus" => exists(storage, ClaudeResponsePath(orch.currentRound))

\* A step of run() that changes the round or the phase of the manifest in
\* memory leaves the stored manifest equal to it.
ManifestSaved ==
    /\ pc \in RunPcs /\ WentOn
    /\ \/ manifest'.current_round # manifest.current_round
       \/ manifest'.current_phase # manifest.current_phase
    => storage'[MANIFEST_PATH] = manifest'

\* C28: every phase boundary is durable before the work of the next phase
\* begins: when a collaborator is invoked for phase P of round N the stored
\* manifest records round N and phase P and the payloads of the earlier
\* phases of round N are stored; and after every startRound and setPhase the
\* stored manifest equals the manifest in memory.
PhaseBoundaryDurable == [][BoundaryStored' /\ ManifestSaved]_vars

\* C28, a case: a resumed process is about to ask for the consensus check.
ResumedBeforeConsensus ==
    /\ process = 1
    /\ pc = "consensus"
    /\ Emitted("claude_response") = 0
    /\ Persisted.current_phase = "consensus_check"

\* The phase that follows a phase.
NextPhase(phase) ==
    CASE phase = "pending" -> "codex_review"
      [] phase = "codex_review" -> "claude_response"
      [] phase = "claude_response" -> "consensus_check"
      [] phase = "consensus_check" -> "complete"
      [] phase = "complete" -> "pending"

\* C29: the current_phase of the stored manifest only changes along pending
\* -> codex_review -> claude_response -> consensus_check -> complete ->
\* pending, also in executions that resume in the middle of a round.
PhaseFollowsCycle ==
    [][exists(storage, MANIFEST_PATH)
       /\ storage'[MANIFEST_PATH].current_phase # Persisted.current_phase
       => storage'[MANIFEST_PATH].current_phase = NextPhase(Persisted.current_phase)]_vars

\* C30: the manifest's current_round is increased only while its stored
\* current_phase is pending or complete, the first startRound after a resume
\* included.
RoundAdvancesBetweenRounds ==
    [][exists(storage, MANIFEST_PATH)
       /\ storage'[MANIFEST_PATH].current_round > Persisted.current_round
       => Persisted.current_phase \in {"pending", "complete"}]_vars

\* The document a session has come to: the snapshot of the last round that
\* has one, or the input document.
RECURSIVE DocumentUpTo(_, _)
DocumentUpTo(store, round) ==
    IF round < 1 THEN InputDocument
    ELSE IF exists(store, DocumentPath(round)) THEN store[DocumentPath(round)]
    ELSE DocumentUpTo(store, round - 1)

CurrentDocument == DocumentUpTo(storage, MaxRoundsBound + 1)

\* The steps of terminate(): the final document goes to the store, then to
\* the output file, then the manifest is completed, then the summary is
\* written; and the stored status only changes in the third of these steps.
FinalizationStep ==
    /\ pc = "save_final" /\ WentOn =>
          pc' = "write_output" /\ storage'[FINAL_DOCUMENT_PATH] = orch.currentDocument
    /\ pc = "write_output" /\ WentOn =>
          pc' = "complete" /\ outputFile' = Some(orch.currentDocument)
    /\ pc = "complete" /\ WentOn =>
          pc' = "save_summary" /\ storage'[MANIFEST_PATH].status = orch.status
    /\ pc = "save_summary" /\ WentOn =>
          pc' = "done" /\ storage'[FINAL_SUMMARY_PATH].status = orch.status
    /\ exists(storage, MANIFEST_PATH)
       /\ storage'[MANIFEST_PATH].status # Persisted.status => pc = "complete"

\* A stored manifest with a terminal status goes with a final document that
\* is the current document and with a summary, once written, of the same
\* statistics.
FinalizedState ==
    TerminalStored =>
        /\ exists(storage, FINAL_DOCUMENT_PATH)
        /\ storage[FINAL_DOCUMENT_PATH] = CurrentDocument
        /\ exists(storage, FINAL_SUMMARY_PATH) =>
              storage[FINAL_SUMMARY_PATH].statistics = Persisted.statistics

\* C31: termination follows one finalization sequence whatever led to it:
\* the final document is written to the session store, then to the output
\* file, then the manifest is completed, then the final summary is written;
\* so whenever the stored manifest has a terminal status, final/document.md
\* exists and is the current document, and the statistics of the final
\* summary are those of the completed manifest.
SingleFinalization == [][FinalizationStep /\ FinalizedState']_vars

\* C32: after loadExisting has returned true, the statistics of the manifest
\* are the aggregate over the stored artifacts of rounds 1..current_round,
\* whatever statistics the stored manifest held; and after complete(status)
\* the statistics of the stored manifest are that aggregate too.
StatisticsRecomputed ==
    [][/\ pc \in EndedPcs /\ pc' = "run" =>
            /\ manifest'.current_round = Persisted.current_round
            /\ manifest'.statistics =
                    StatisticsUpTo(storage, Persisted.current_round)
       /\ completeCalls' # completeCalls =>
            storage'[MANIFEST_PATH].statistics =
                StatisticsUpTo(storage', storage'[MANIFEST_PATH].current_round)]_vars

\* C32, a case: a session was loaded whose stored manifest has the statistics
\* of a new session, and whose artifacts give others.
LoadedStaleStatistics ==
    /\ process = 1
    /\ pc = "run"
    /\ Persisted.statistics = ZeroStatistics
    /\ manifest.statistics.total_issues_raised = 1
    /\ manifest.statistics.issues_resolved = 1

\* C33: when the review of round N + 1 is about to be checked for a stalemate,
\* the fingerprint it is compared with is that of the stored review of round
\* N, in a process that was resumed between the two reviews as well.
StalemateComparesPreceding ==
    /\ pc = "review"
    /\ orch.currentRound > 1
    => /\ exists(storage, CodexReviewPath(orch.currentRound - 1))
       /\ orch.previousFeedbackHash =
            Some(hashFeedback(storage[CodexReviewPath(orch.currentRound - 1)]))

\* How many times an (id, description) pair is among the items of a list.
TimesIn(items, pair) ==
    Cardinality({i \in DOMAIN items : <<items[i].id, items[i].description>> = pair})

\* The (id, description) pairs of the items of a list.
PairsOf(items) == {<<items[i].id, items[i].description>> : i \in DOMAIN items}

\* Two lists have the same multiset of (id, description) pairs.
SamePairs(a, b) ==
    \A pair \in PairsOf(a) \cup PairsOf(b) : TimesIn(a, pair) = TimesIn(b, pair)

\* Two reviews have the same normalized content: the same multisets of pairs
\* as issues, and as opportunities.
SameContent(a, b) ==
    /\ SamePairs(a.issues, b.issues)
    /\ SamePairs(a.opportunities, b.opportunities)

\* C34: two reviews whose issues have the same multiset of (id, description)
\* pairs, and whose opportunities have, get the same fingerprint, whatever the
\* order of the lists.
FingerprintOrderFree ==
    /\ pc = "compared"
    /\ SameContent(call.first, call.second[1])
    => call.fingerprints[1][1] = call.fingerprints[1][2]

\* C35: two reviews whose normalized content differs (another description,
\* an issue of the one an opportunity of the other, another split between id
\* and description) never get the same fingerprint.
FingerprintTellsApart ==
    /\ pc = "compared"
    /\ ~SameContent(call.first, call.second[1])
    => call.fingerprints[1][1] # call.fingerprints[1][2]

\* The round payloads that are stored for a round.
PayloadPath(kind, round) ==
    CASE kind = "review" -> CodexReviewPath(round)
      [] kind = "response" -> ClaudeResponsePath(round)
      [] kind = "consensus" -> ConsensusPath(round)
      [] kind = "document" -> DocumentPath(round)

PayloadsOfRound(round) ==
    {kind \in {"review", "response", "consensus", "document"} :
        exists(storage, PayloadPath(kind, round))}

\* The stored review of the round repeats the fingerprint of the stored review
\* of the round before.
RepeatsFeedback(round) ==
    /\ round > 1
    /\ exists(storage, CodexReviewPath(round))
    /\ exists(storage, CodexReviewPath(round - 1))
    /\ hashFeedback(storage[CodexReviewPath(round)]) =
       hashFeedback(storage[CodexReviewPath(round - 1)])

\* The stored consensus check of the round approves.
ApprovedIn(round) ==
    /\ exists(storage, ConsensusPath(round))
    /\ storage[ConsensusPath(round)].verdict = "approve"

\* The payloads a run without interruption leaves for a round it went
\* through, the collaborators having returned for it what is stored.
PayloadsWithoutInterruption(round) ==
    IF RepeatsFeedback(round) THEN {"review"}
    ELSE {"review", "response", "document"} \cup
         (IF /\ exists(storage, ClaudeResponsePath(round))
             /\ storage[ClaudeResponsePath(round)].consensus_assessment.reached
          THEN {"consensus"} ELSE {})

\* The outcome of a run that has returned is one a run without interruption
\* has: every round up to the last has the payloads of such a run and
\* no round after it has any, the session went on only after rounds without
\* a repeated review and without an approval, it ended by a repeated review
\* (max_rounds_reached), by an approval (completed) or at the round limit
\* (with the status a process running from the start gives), and the final
\* document is the document of the last round that has one.
OutcomeWithoutInterruption ==
    LET last == result[1].totalRounds
    IN  /\ \A round \in 1..last :
                PayloadsOfRound(round) = PayloadsWithoutInterruption(round)
        /\ \A round \in Rounds : round > last => PayloadsOfRound(round) = {}
        /\ \A round \in 1..(last - 1) :
                ~RepeatsFeedback(round) /\ ~ApprovedIn(round)
        /\ result[1].status =
                IF RepeatsFeedback(last) THEN "max_rounds_reached"
                ELSE IF ApprovedIn(last) THEN "completed"
                ELSE determineMaxRoundsStatus(ZeroStatistics)
        /\ ~RepeatsFeedback(last) /\ ~ApprovedIn(last) => last = Persisted.max_rounds
        /\ result[1].finalDocument = CurrentDocument
        /\ storage[FINAL_DOCUMENT_PATH] = CurrentDocument

\* C36: a session that is interrupted once between two storage writes and
\* then resumed with the same round limit ends with the final status, the
\* final document and the stored round payloads of a run without interruption.
ResumeEquivalent ==
    /\ pc = "done"
    /\ process = 1
    /\ completeCalls = 1
    /\ config.maxRounds = Persisted.max_rounds
    => OutcomeWithoutInterruption

\* The statuses of a session ended at the round limit.
RoundLimitStatuses ==
    {"max_rounds_reached", "max_rounds_reached_warning", "max_rounds_reached_unsafe"}

\* The stored manifest has passed the round: it is at a later round, or the
\* session has ended by the round limit with the round as its last.
RoundPassed(round) ==
    /\ exists(storage, MANIFEST_PATH)
    /\ \/ Persisted.current_round > round
       \/ /\ Persisted.current_round = round
          /\ Persisted.status \in RoundLimitStatuses

\* C37: in every state, also after an interruption and a resume, a round
\* whose stored response claims consensus and which the session has passed
\* has its consensus check stored.
ConsensusNeverSkipped ==
    \A round \in Rounds :
        /\ exists(storage, ClaudeResponsePath(round))
        /\ storage[ClaudeResponsePath(round)].consensus_assessment.reached
        /\ RoundPassed(round)
        => exists(storage, ConsensusPath(round))

\* The counters that only count what the rounds raised or left unresolved.
CumulativeCounters ==
    {"critical_unresolved", "major_unresolved", "issues_disputed",
     "total_issues_raised"}

\* A step leaves none of these counters, computed over all stored rounds,
\* smaller than it was.
CountersGrow ==
    \E before \in {StatisticsUpTo(storage, MaxRoundsBound + 1)} :
    \E after \in {StatisticsUpTo(storage', MaxRoundsBound + 1)} :
        \A counter \in CumulativeCounters : after[counter] >= before[counter]

\* A session ended by the round limit is graded with the issues that a
\* consensus check of any of its rounds found inadequate.
GradingCountsInadequate ==
    RoundLimitExhausted =>
        /\ UnresolvedUpTo(storage, Persisted.current_round, "critical") > 0
            => result[1].status = "max_rounds_reached_unsafe"
        /\ UnresolvedUpTo(storage, Persisted.current_round, "major") > 0
            => result[1].status # "max_rounds_reached"

\* C38: critical_unresolved, major_unresolved, issues_disputed and
\* total_issues_raised never decrease as further rounds are stored, so that an
\* issue found inadequate in a round counts as unresolved in the final
\* statistics and in the grading of a session ended by the round limit,
\* whatever later rounds say of it.
CountersCumulative == [][CountersGrow /\ GradingCountsInadequate']_vars

\* Two lists of issues or opportunities have the same ids and descriptions,
\* place by place.
SameIdsAndDescriptions(a, b) ==
    /\ Len(a) = Len(b)
    /\ \A i \in DOMAIN a :
          a[i].id = b[i].id /\ a[i].description = b[i].description

\* Two reviews differ at most in the severity, the impact or the overall
\* assessment.
DifferOnlyInGrading(a, b) ==
    /\ SameIdsAndDescriptions(a.issues, b.issues)
    /\ SameIdsAndDescriptions(a.opportunities, b.opportunities)

\* C39: when the reviews of two consecutive rounds differ only in severity,
\* impact or overall assessment, they have the same fingerprint, and the
\* second ends the session as a stalemate: no response is made for its
\* round, and the run returns max_rounds_reached with exit code 0 whatever
\* severities the second review has.
SeverityBlindStalemate ==
    \A round \in 1..MaxRoundsBound :
        /\ exists(storage, CodexReviewPath(round))
        /\ exists(storage, CodexReviewPath(round + 1))
        /\ DifferOnlyInGrading(storage[CodexReviewPath(round)],
                               storage[CodexReviewPath(round + 1)])
        => /\ hashFeedback(storage[CodexReviewPath(round)]) =
              hashFeedback(storage[CodexReviewPath(round + 1)])
           /\ ~exists(storage, ClaudeResponsePath(round + 1))
           /\ pc = "done" =>
                /\ result[1].status = "max_rounds_reached"
                /\ result[1].exitCode = 0
                /\ exitCode = Some(0)

\* How many of the lines a subprocess delivered were text deltas.
DeltasOf(attempt) ==
    Cardinality({i \in DOMAIN call.delivered[attempt] :
                    call.delivered[attempt][i] = "text_delta"})

\* C40: the text runClaude returns after a retry is made of output of the
\* attempt that succeeded only, and the token count counts the deltas of that
\* attempt only: nothing of a failed or timed-out attempt is in them, also
\* not what a killed subprocess printed after the next attempt had started.
RetryTextFromOneAttempt ==
    /\ pc = "returned"
    /\ call.op = "runClaude"
    /\ call.attempt > 1
    => /\ \A i \in DOMAIN call.returned[1] : call.returned[1][i] = call.attempt
       /\ call.tokenCount = DeltasOf(call.attempt)

====
